---- MODULE Spec2Model ----
(***************************************************************************)
(* Time-series analysis pipeline of the NetCDF viewer: the numeric engines *)
(* of utils/analysis.ts, the AnalysisPanel orchestrator that composes      *)
(* them, and the filter / analysis controls that feed it.                  *)
(*                                                                         *)
(* Numbers.  A JavaScript number is modelled as an exact rational          *)
(* <<numerator, denominator>> in lowest terms with a positive denominator. *)
(* The engines compute exactly, except under SpecRounded, where every      *)
(* operation rounds as an IEEE operation does.  Timestamps count ticks     *)
(* of 1/UnitsPerHour hour since the epoch (the source uses milliseconds).  *)
(*                                                                         *)
(* Nullable values.  null is the empty tuple and a present value v is the  *)
(* one-element tuple <<v>>, so that null and an empty array differ.        *)
(*                                                                         *)
(* Exceptions.  A function that can throw returns Ok(v) or Thrown.         *)
(***************************************************************************)
EXTENDS Integers, Sequences, FiniteSets, TLC

VARIABLES
    \* ---- AnalysisPanel: props and hook state
    rawData,            \* prop rawData: DataPoint[]
    tzOffset,           \* the host's local-time offset from UTC, in ticks
    dateRange,          \* useState<DateRange>
    valueRange,         \* useState<ValueRange>
    movingAverage,      \* useState<MovingAverageSettings>
    trendLine,          \* useState<TrendLineSettings>
    aggregation,        \* useState<AggregationSettings>
    anomaly,            \* useState<AnomalySettings>
    \* ---- local hook state of the child controls
    dateRangeFilter,
    valueRangeFilter,
    movingAverageControl,
    trendLineControl,
    aggregationControl,
    anomalyDetection,
    \* ---- React machinery
    phase,              \* "render" | "effects" | "idle" | "crashed"
    touched,            \* parent state slots set since the last render
    rendered,           \* closure of the last committed render
    pendingEffects,     \* effects scheduled by the last commit
    memo,               \* the useMemo slot of processedData
    emitted,            \* last (state, processed) given to onAnalysisChange
    userActions,        \* number of user interactions so far
    \* ---- direct calls of the engines
    call,
    ret,
    \* ---- arrays as objects
    heap,               \* heap[a]: the elements of the array at address a
    \* ---- a component that loads through invoke
    selected,           \* the variable the props name, or the args of the last execute
    requests,           \* the invoke calls made so far, in order, with their status
    loader              \* useState: data, loading, error (and stats)

vars == <<rawData, tzOffset, dateRange, valueRange, movingAverage, trendLine,
          aggregation, anomaly, dateRangeFilter, valueRangeFilter,
          movingAverageControl, trendLineControl, aggregationControl,
          anomalyDetection, phase, touched, rendered, pendingEffects, memo,
          emitted, userActions, call, ret, heap, selected, requests, loader>>

panelVars == <<dateRange, valueRange, movingAverage, trendLine, aggregation, anomaly>>

controlVars == <<dateRangeFilter, valueRangeFilter, movingAverageControl,
                 trendLineControl, aggregationControl, anomalyDetection>>

reactVars == <<phase, touched, rendered, pendingEffects, memo, emitted, userActions>>

loadVars == <<selected, requests, loader>>

engineVars == <<call, ret, heap, loadVars>>

-----------------------------------------------------------------------------
(* Nullable values and results of functions that may throw *)

NULL == <<>>

Some(v) == <<v>>

Get(o) == o[1]

Ok(v) == [ok |-> TRUE, val |-> v]

Thrown == [ok |-> FALSE]

-----------------------------------------------------------------------------
(* Exact rational arithmetic standing for JavaScript numbers *)

Abs(n) == IF n < 0 THEN -n ELSE n

RECURSIVE GCD(_, _)
GCD(a, b) == IF b = 0 THEN a ELSE GCD(b, a % b)

Norm(n, d) ==
    LET s == IF d < 0 THEN -1 ELSE 1
        g == GCD(Abs(n), Abs(d))
    IN  <<(s * n) \div g, (s * d) \div g>>

R(n) == <<n, 1>>

Frac(n, d) == Norm(n, d)

RAdd(a, b) == Norm(a[1] * b[2] + b[1] * a[2], a[2] * b[2])

RSub(a, b) == Norm(a[1] * b[2] - b[1] * a[2], a[2] * b[2])

RMul(a, b) == Norm(a[1] * b[1], a[2] * b[2])

\* a / b for b # 0
RDiv(a, b) == Norm(a[1] * b[2], a[2] * b[1])

RLt(a, b) == a[1] * b[2] < b[1] * a[2]

RLe(a, b) == a[1] * b[2] <= b[1] * a[2]

RGt(a, b) == RLt(b, a)

RIsZero(a) == a[1] = 0

RMax(a, b) == IF RLt(a, b) THEN b ELSE a

RMin(a, b) == IF RLt(b, a) THEN b ELSE a

RECURSIVE RSum(_)
RSum(s) == IF s = <<>> THEN R(0) ELSE RAdd(s[1], RSum(Tail(s)))

\* values.reduce((sum, v) => sum + v, 0) / values.length, for a non-empty array
RMean(s) == RDiv(RSum(s), R(Len(s)))

\* data.slice(from, to) with 0-based from (inclusive) and to (exclusive)
Slice(s, from, to) == SubSeq(s, from + 1, to)

MapValue(data) == [i \in 1..Len(data) |-> data[i].value]

MapTimestamp(data) == [i \in 1..Len(data) |-> data[i].timestamp]

-----------------------------------------------------------------------------
(* Rounded arithmetic: the IEEE 754 operations of JavaScript numbers, rounding *)
(* to nearest with ties to even, with a significand of Precision bits (the     *)
(* program's numbers have 53) and an unbounded exponent                        *)

\* bits of the significand
Precision == 4

\* <<n, d, e>> with n/d in [2^(Precision-1), 2^Precision) and (n/d) * 2^e the
\* positive rational first passed as n/d with e = 0
RECURSIVE Scaled(_, _, _)
Scaled(n, d, e) ==
    IF n < 2^(Precision - 1) * d THEN Scaled(2 * n, d, e - 1)
    ELSE IF n >= 2^Precision * d THEN Scaled(n, 2 * d, e + 1)
    ELSE <<n, d, e>>

\* the representable number nearest to x
Fl(x) ==
    IF x[1] = 0 THEN x
    ELSE LET s == Scaled(Abs(x[1]), x[2], 0)
             q == s[1] \div s[2]
             twiceRest == 2 * (s[1] - q * s[2])
             m == IF twiceRest > s[2] \/ (twiceRest = s[2] /\ q % 2 = 1) THEN q + 1 ELSE q
             sign == IF x[1] < 0 THEN -1 ELSE 1
         IN  IF s[3] >= 0 THEN Norm(sign * m * 2^(s[3]), 1)
             ELSE Norm(sign * m, 2^(-s[3]))

FAdd(a, b) == Fl(RAdd(a, b))

FSub(a, b) == Fl(RSub(a, b))

FMul(a, b) == Fl(RMul(a, b))

\* a / b for b # 0
FDiv(a, b) == Fl(RDiv(a, b))

\* s.reduce((sum, v) => sum + v, 0): the addends are taken from left to right
RECURSIVE FSum(_)
FSum(s) == IF s = <<>> THEN R(0) ELSE FAdd(FSum(SubSeq(s, 1, Len(s) - 1)), s[Len(s)])

-----------------------------------------------------------------------------
(* utils/analysis.ts: smoothing *)

\* mutant: the guard also rejects a window as long as the data
SmaThrowsRejectsFullWindow(data, windowSize) == windowSize <= 0 \/ windowSize >= Len(data)

\* mutant: the guard no longer compares the window with the length of the data
SmaThrowsIgnoresLength(data, windowSize) == windowSize <= 0

\* the guard of calculateSimpleMovingAverage
SmaThrows(data, windowSize) == windowSize <= 0 \/ windowSize > Len(data)

\* mutant: a partial window is divided by the window size, not by its own length
SmaEntryDividesByWindowSize(data, windowSize, i) ==
    LET window == Slice(data, IF i < windowSize - 1 THEN 0 ELSE i - windowSize + 1, i + 1)
    IN  RDiv(RSum(window), R(windowSize))

\* the body of the loop of calculateSimpleMovingAverage for the 0-based index i
SmaEntry(data, windowSize, i) ==
    IF i < windowSize - 1
    THEN LET partialWindow == Slice(data, 0, i + 1)
         IN  RDiv(RSum(partialWindow), R(Len(partialWindow)))
    ELSE LET window == Slice(data, i - windowSize + 1, i + 1)
         IN  RDiv(RSum(window), R(windowSize))

calculateSimpleMovingAverage(data, windowSize) ==
    IF SmaThrows(data, windowSize)
    THEN Thrown
    ELSE Ok([k \in 1..Len(data) |-> SmaEntry(data, windowSize, k - 1)])

\* the guard of calculateExponentialMovingAverage
EmaThrows(alpha) == RLe(alpha, R(0)) \/ RGt(alpha, R(1))

\* mutant: the weights of the new value and of the previous average are swapped
RECURSIVE EmaPrefixWeightsSwapped(_, _, _)
EmaPrefixWeightsSwapped(data, alpha, n) ==
    IF n = 1
    THEN <<data[1]>>
    ELSE LET result == EmaPrefixWeightsSwapped(data, alpha, n - 1)
         IN  Append(result, RAdd(RMul(RSub(R(1), alpha), data[n]),
                                 RMul(alpha, result[n - 1])))

\* the array after the loop has handled the first n elements of data (n >= 1)
RECURSIVE EmaPrefix(_, _, _)
EmaPrefix(data, alpha, n) ==
    IF n = 1
    THEN <<data[1]>>
    ELSE LET result == EmaPrefix(data, alpha, n - 1)
             currentVal == data[n]
             prevEma == result[n - 1]
             ema == RAdd(RMul(alpha, currentVal), RMul(RSub(R(1), alpha), prevEma))
         IN  Append(result, ema)

calculateExponentialMovingAverage(data, alpha) ==
    IF EmaThrows(alpha) THEN Thrown
    ELSE IF Len(data) = 0 THEN Ok(<<>>)
    ELSE Ok(EmaPrefix(data, alpha, Len(data)))

-----------------------------------------------------------------------------
(* utils/analysis.ts: linear regression *)

\* the guard of calculateLinearTrend
TrendThrows(x, y) == Len(x) # Len(y) \/ Len(x) = 0

\* mutant: the slope is fitted to the uncentred values, a line through the origin
calculateLinearTrendUncentred(x, y) ==
    IF TrendThrows(x, y) THEN Thrown
    ELSE
    LET n == Len(x)
        xMean == RDiv(RSum(x), R(n))
        yMean == RDiv(RSum(y), R(n))
        numerator == RSum([i \in 1..n |-> RMul(x[i], y[i])])
        denominator == RSum([i \in 1..n |-> RMul(x[i], x[i])])
        slope == IF RIsZero(denominator) THEN R(0) ELSE RDiv(numerator, denominator)
        intercept == RSub(yMean, RMul(slope, xMean))
        yPredicted(i) == RAdd(RMul(slope, x[i]), intercept)
        ssTotal == RSum([i \in 1..n |-> RMul(RSub(y[i], yMean), RSub(y[i], yMean))])
        ssResidual == RSum([i \in 1..n |->
                          RMul(RSub(y[i], yPredicted(i)), RSub(y[i], yPredicted(i)))])
        r2 == IF RIsZero(ssTotal) THEN R(0) ELSE RSub(R(1), RDiv(ssResidual, ssTotal))
    IN  Ok([slope |-> slope, intercept |-> intercept, r2 |-> r2])

calculateLinearTrend(x, y) ==
    IF TrendThrows(x, y) THEN Thrown
    ELSE
    LET n == Len(x)
        xMean == RDiv(RSum(x), R(n))
        yMean == RDiv(RSum(y), R(n))
        numerator == RSum([i \in 1..n |-> RMul(RSub(x[i], xMean), RSub(y[i], yMean))])
        denominator == RSum([i \in 1..n |-> RMul(RSub(x[i], xMean), RSub(x[i], xMean))])
        slope == IF RIsZero(denominator) THEN R(0) ELSE RDiv(numerator, denominator)
        intercept == RSub(yMean, RMul(slope, xMean))
        yPredicted(i) == RAdd(RMul(slope, x[i]), intercept)
        ssTotal == RSum([i \in 1..n |-> RMul(RSub(y[i], yMean), RSub(y[i], yMean))])
        ssResidual == RSum([i \in 1..n |->
                          RMul(RSub(y[i], yPredicted(i)), RSub(y[i], yPredicted(i)))])
        r2 == IF RIsZero(ssTotal) THEN R(0) ELSE RSub(R(1), RDiv(ssResidual, ssTotal))
    IN  Ok([slope |-> slope, intercept |-> intercept, r2 |-> r2])

\* calculateLinearTrend with every operation rounded
calculateLinearTrendRounded(x, y) ==
    IF TrendThrows(x, y) THEN Thrown
    ELSE
    LET n == Len(x)
        xMean == FDiv(FSum(x), R(n))
        yMean == FDiv(FSum(y), R(n))
        numerator == FSum([i \in 1..n |-> FMul(FSub(x[i], xMean), FSub(y[i], yMean))])
        denominator == FSum([i \in 1..n |-> FMul(FSub(x[i], xMean), FSub(x[i], xMean))])
        slope == IF RIsZero(denominator) THEN R(0) ELSE FDiv(numerator, denominator)
        intercept == FSub(yMean, FMul(slope, xMean))
        yPredicted(i) == FAdd(FMul(slope, x[i]), intercept)
        ssTotal == FSum([i \in 1..n |-> FMul(FSub(y[i], yMean), FSub(y[i], yMean))])
        ssResidual == FSum([i \in 1..n |->
                          FMul(FSub(y[i], yPredicted(i)), FSub(y[i], yPredicted(i)))])
        r2 == IF RIsZero(ssTotal) THEN R(0) ELSE FSub(R(1), FDiv(ssResidual, ssTotal))
    IN  Ok([slope |-> slope, intercept |-> intercept, r2 |-> r2])

-----------------------------------------------------------------------------
(* The host's calendar, as the Date methods used by getPeriodStart see it *)

\* resolution of the model's clock: ticks per hour
UnitsPerHour == 2

UnitsPerDay == 24 * UnitsPerHour

\* (year, month 1..12, day 1..31) of a day number counted from 1970-01-01
CivilFromDays(days) ==
    LET z == days + 719468
        era == z \div 146097
        doe == z - era * 146097
        yoe == (doe - doe \div 1460 + doe \div 36524 - doe \div 146096) \div 365
        doy == doe - (365 * yoe + yoe \div 4 - yoe \div 100)
        mp == (5 * doy + 2) \div 153
        d == doy - (153 * mp + 2) \div 5 + 1
        m == IF mp < 10 THEN mp + 3 ELSE mp - 9
        y == yoe + era * 400 + (IF m <= 2 THEN 1 ELSE 0)
    IN  [year |-> y, month |-> m, day |-> d]

\* the day number of a calendar date
DaysFromCivil(year, month, day) ==
    LET y == IF month <= 2 THEN year - 1 ELSE year
        era == y \div 400
        yoe == y - era * 400
        doy == (153 * (IF month > 2 THEN month - 3 ELSE month + 9) + 2) \div 5 + day - 1
        doe == yoe * 365 + yoe \div 4 - yoe \div 100 + doy
    IN  era * 146097 + doe - 719468

\* local wall-clock ticks of an instant, and back
ToLocal(timestamp) == timestamp + tzOffset

FromLocal(local) == local - tzOffset

\* Date.getDay() of a local day number: 0 is Sunday; 1970-01-01 was a Thursday
GetDay(localDay) == (localDay + 4) % 7

-----------------------------------------------------------------------------
(* utils/analysis.ts: aggregation *)

AggregationPeriods == {"hourly", "daily", "weekly", "monthly", "yearly"}

AggregationFunctions == {"mean", "sum", "min", "max", "count", "median"}

\* mutant: the week starts on Sunday
getPeriodStartWeekFromSunday(timestamp, period) ==
    LET local == ToLocal(timestamp)
        localDay == local \div UnitsPerDay
        civil == CivilFromDays(localDay)
    IN  CASE period = "hourly" ->
               FromLocal((local \div UnitsPerHour) * UnitsPerHour)
          [] period = "daily" ->
               FromLocal(localDay * UnitsPerDay)
          [] period = "weekly" ->
               LET dayOfWeek == GetDay(localDay)
                   diff == dayOfWeek
               IN  FromLocal((localDay - diff) * UnitsPerDay)
          [] period = "monthly" ->
               FromLocal(DaysFromCivil(civil.year, civil.month, 1) * UnitsPerDay)
          [] period = "yearly" ->
               FromLocal(DaysFromCivil(civil.year, 1, 1) * UnitsPerDay)

getPeriodStart(timestamp, period) ==
    LET local == ToLocal(timestamp)
        localDay == local \div UnitsPerDay
        civil == CivilFromDays(localDay)
    IN  CASE period = "hourly" ->
               FromLocal((local \div UnitsPerHour) * UnitsPerHour)
          [] period = "daily" ->
               FromLocal(localDay * UnitsPerDay)
          [] period = "weekly" ->
               LET dayOfWeek == GetDay(localDay)
                   diff == IF dayOfWeek = 0 THEN 6 ELSE dayOfWeek - 1
               IN  FromLocal((localDay - diff) * UnitsPerDay)
          [] period = "monthly" ->
               FromLocal(DaysFromCivil(civil.year, civil.month, 1) * UnitsPerDay)
          [] period = "yearly" ->
               FromLocal(DaysFromCivil(civil.year, 1, 1) * UnitsPerDay)

\* [...values].sort((a, b) => a - b)
RECURSIVE SortNumbers(_)
SortNumbers(values) ==
    IF values = <<>> THEN <<>>
    ELSE LET i == CHOOSE k \in 1..Len(values) :
                      /\ \A j \in 1..Len(values) : RLe(values[k], values[j])
                      /\ \A j \in 1..(k - 1) : values[j] # values[k]
         IN  <<values[i]>> \o
             SortNumbers(SubSeq(values, 1, i - 1) \o SubSeq(values, i + 1, Len(values)))

RECURSIVE MinOf(_)
MinOf(values) ==
    IF Len(values) = 1 THEN values[1] ELSE RMin(values[1], MinOf(Tail(values)))

RECURSIVE MaxOf(_)
MaxOf(values) ==
    IF Len(values) = 1 THEN values[1] ELSE RMax(values[1], MaxOf(Tail(values)))

\* mutant: the median of an even count is the upper of the two middle values
MedianUpperMiddle(values) ==
    LET sorted == SortNumbers(values)
        mid == Len(sorted) \div 2
    IN  sorted[mid + 1]

\* the median case of applyAggregationFunction
Median(values) ==
    LET sorted == SortNumbers(values)
        mid == Len(sorted) \div 2
    IN  IF Len(sorted) % 2 = 0
        THEN RDiv(RAdd(sorted[mid], sorted[mid + 1]), R(2))
        ELSE sorted[mid + 1]

\* values is non-empty: a group exists only once a point was pushed into it
applyAggregationFunction(values, func) ==
    CASE func = "mean" -> RDiv(RSum(values), R(Len(values)))
      [] func = "sum" -> RSum(values)
      [] func = "min" -> MinOf(values)
      [] func = "max" -> MaxOf(values)
      [] func = "count" -> R(Len(values))
      [] func = "median" -> Median(values)

\* the keys of the Map groups
GroupKeys(data, period) == {getPeriodStart(data[i].timestamp, period) : i \in 1..Len(data)}

\* groups.get(key): the values pushed under key, in the order of data
RECURSIVE GroupValues(_, _, _)
GroupValues(data, period, key) ==
    IF data = <<>> THEN <<>>
    ELSE LET rest == GroupValues(Tail(data), period, key)
         IN  IF getPeriodStart(data[1].timestamp, period) = key
             THEN <<data[1].value>> \o rest
             ELSE rest

\* a set of distinct timestamps in ascending order
RECURSIVE SortTimestamps(_)
SortTimestamps(keys) ==
    IF keys = {} THEN <<>>
    ELSE LET least == CHOOSE k \in keys : \A j \in keys : k <= j
         IN  <<least>> \o SortTimestamps(keys \ {least})

\* the keys of the Map groups in the order of their insertion
RECURSIVE InsertionOrder(_, _)
InsertionOrder(data, period) ==
    IF data = <<>> THEN <<>>
    ELSE LET before == InsertionOrder(SubSeq(data, 1, Len(data) - 1), period)
             key == getPeriodStart(data[Len(data)].timestamp, period)
         IN  IF \E i \in 1..Len(before) : before[i] = key
             THEN before ELSE Append(before, key)

\* mutant: the result is left in the order the groups were created
aggregateByTimePeriodUnsorted(data, period, func) ==
    IF Len(data) = 0 THEN <<>>
    ELSE LET order == InsertionOrder(data, period)
         IN  [i \in 1..Len(order) |->
                [timestamp |-> order[i],
                 value |-> applyAggregationFunction(GroupValues(data, period, order[i]), func)]]

aggregateByTimePeriod(data, period, func) ==
    IF Len(data) = 0 THEN <<>>
    ELSE LET order == SortTimestamps(GroupKeys(data, period))
         IN  [i \in 1..Len(order) |->
                [timestamp |-> order[i],
                 value |-> applyAggregationFunction(GroupValues(data, period, order[i]), func)]]

-----------------------------------------------------------------------------
(* utils/analysis.ts: anomaly detection *)

\* data.reduce((sum, val) => sum + (val - mean) ** 2, 0) / data.length
Variance(data) ==
    LET mean == RMean(data)
    IN  RDiv(RSum([i \in 1..Len(data) |->
                     RMul(RSub(data[i], mean), RSub(data[i], mean))]),
             R(Len(data)))

\* mutant: a z-score equal to the threshold is flagged too
ZScoreExceedsOrEquals(value, mean, variance, threshold) ==
    LET dev == RSub(value, mean)
    IN  IF RIsZero(variance)
        THEN ~RIsZero(dev)
        ELSE ~RLt(RMul(dev, dev), RMul(RMul(threshold, threshold), variance))

\* Math.abs((value - mean) / Math.sqrt(variance)) > threshold, for threshold > 0.
\* With variance 0 the quotient is NaN for value = mean (the comparison is
\* false) and Infinity otherwise (the comparison is true).
ZScoreExceeds(value, mean, variance, threshold) ==
    LET dev == RSub(value, mean)
    IN  IF RIsZero(variance)
        THEN ~RIsZero(dev)
        ELSE RGt(RMul(dev, dev), RMul(RMul(threshold, threshold), variance))

\* the indices pushed by the forEach over data[from..], 0-based
RECURSIVE AnomalyIndicesFrom(_, _, _, _, _)
AnomalyIndicesFrom(data, mean, variance, threshold, from) ==
    IF from > Len(data) THEN <<>>
    ELSE (IF ZScoreExceeds(data[from], mean, variance, threshold)
          THEN <<from - 1>> ELSE <<>>)
         \o AnomalyIndicesFrom(data, mean, variance, threshold, from + 1)

detectAnomalies(data, threshold) ==
    IF Len(data) = 0 \/ RLe(threshold, R(0))
    THEN <<>>
    ELSE AnomalyIndicesFrom(data, RMean(data), Variance(data), threshold, 1)

\* data.reduce((sum, val) => sum + val, 0) / data.length, every operation rounded
MeanRounded(data) == FDiv(FSum(data), R(Len(data)))

\* data.reduce((sum, val) => sum + (val - mean) ** 2, 0) / data.length, every
\* operation rounded
VarianceRounded(data) ==
    LET mean == MeanRounded(data)
    IN  FDiv(FSum([i \in 1..Len(data) |->
                     FMul(FSub(data[i], mean), FSub(data[i], mean))]),
             R(Len(data)))

\* detectAnomalies with the mean and the variance rounded.  The z-score test
\* itself stays exact: value - mean is exact for a value near the mean, and the
\* rounding of the square root and of the quotient is not modelled.
detectAnomaliesRounded(data, threshold) ==
    IF Len(data) = 0 \/ RLe(threshold, R(0))
    THEN <<>>
    ELSE AnomalyIndicesFrom(data, MeanRounded(data), VarianceRounded(data), threshold, 1)

-----------------------------------------------------------------------------
(* utils/analysis.ts: interquartile range *)

RECURSIVE OutlierIndicesFrom(_, _, _, _)
OutlierIndicesFrom(data, lowerBound, upperBound, from) ==
    IF from > Len(data) THEN <<>>
    ELSE (IF RLt(data[from], lowerBound) \/ RGt(data[from], upperBound)
          THEN <<from - 1>> ELSE <<>>)
         \o OutlierIndicesFrom(data, lowerBound, upperBound, from + 1)

\* mutant: the outliers are looked up in the sorted copy
calculateIQROutliersOfSorted(data) ==
    IF Len(data) = 0
    THEN [q1 |-> R(0), q3 |-> R(0), iqr |-> R(0), lowerBound |-> R(0),
          upperBound |-> R(0), outlierIndices |-> <<>>]
    ELSE LET sorted == SortNumbers(data)
             n == Len(sorted)
             q1Index == n \div 4
             q3Index == (3 * n) \div 4
             q1 == sorted[q1Index + 1]
             q3 == sorted[q3Index + 1]
             iqr == RSub(q3, q1)
             lowerBound == RSub(q1, RMul(Frac(3, 2), iqr))
             upperBound == RAdd(q3, RMul(Frac(3, 2), iqr))
         IN  [q1 |-> q1, q3 |-> q3, iqr |-> iqr, lowerBound |-> lowerBound,
              upperBound |-> upperBound,
              outlierIndices |-> OutlierIndicesFrom(sorted, lowerBound, upperBound, 1)]

calculateIQR(data) ==
    IF Len(data) = 0
    THEN [q1 |-> R(0), q3 |-> R(0), iqr |-> R(0), lowerBound |-> R(0),
          upperBound |-> R(0), outlierIndices |-> <<>>]
    ELSE LET sorted == SortNumbers(data)
             n == Len(sorted)
             q1Index == n \div 4
             q3Index == (3 * n) \div 4
             q1 == sorted[q1Index + 1]
             q3 == sorted[q3Index + 1]
             iqr == RSub(q3, q1)
             lowerBound == RSub(q1, RMul(Frac(3, 2), iqr))
             upperBound == RAdd(q3, RMul(Frac(3, 2), iqr))
         IN  [q1 |-> q1, q3 |-> q3, iqr |-> iqr, lowerBound |-> lowerBound,
              upperBound |-> upperBound,
              outlierIndices |-> OutlierIndicesFrom(data, lowerBound, upperBound, 1)]

-----------------------------------------------------------------------------
(* utils/analysis.ts: filters.  min, max, startDate and endDate are nullable: *)
(* the callers pass `x ?? undefined`.                                         *)

ValueInRange(point, min, max) ==
    /\ ~(min # NULL /\ RLt(point.value, Get(min)))
    /\ ~(max # NULL /\ RGt(point.value, Get(max)))

filterByValueRange(data, min, max) ==
    SelectSeq(data, LAMBDA point : ValueInRange(point, min, max))

\* mutant: the end of the date range is exclusive
DateInRangeExclusiveEnd(point, startDate, endDate) ==
    /\ ~(startDate # NULL /\ point.timestamp < Get(startDate))
    /\ ~(endDate # NULL /\ point.timestamp >= Get(endDate))

DateInRange(point, startDate, endDate) ==
    /\ ~(startDate # NULL /\ point.timestamp < Get(startDate))
    /\ ~(endDate # NULL /\ point.timestamp > Get(endDate))

filterByDateRange(data, startDate, endDate) ==
    SelectSeq(data, LAMBDA point : DateInRange(point, startDate, endDate))

-----------------------------------------------------------------------------
(* AnalysisPanel.tsx: the body of the processedData useMemo *)

\* Steps 1 and 2: the date filter, then the value filter
FilteredData(raw, dr, vr) ==
    LET byDate == IF dr.startDate # NULL \/ dr.endDate # NULL
                  THEN filterByDateRange(raw, dr.startDate, dr.endDate)
                  ELSE raw
    IN  IF vr.min # NULL \/ vr.max # NULL
        THEN filterByValueRange(byDate, vr.min, vr.max)
        ELSE byDate

\* Step 3: aggregatedData
AggregatedData(filtered, ag) ==
    IF ag.enabled /\ Len(filtered) > 0
    THEN Some(aggregateByTimePeriod(filtered, ag.period, ag.func))
    ELSE NULL

\* mutant: the analysis stages read the filtered series even when aggregation is on
DataForAnalysisIgnoresAggregation(filtered, aggregatedData) == filtered

\* Step 3: dataForAnalysis
DataForAnalysis(filtered, aggregatedData) ==
    IF aggregatedData # NULL THEN Get(aggregatedData) ELSE filtered

\* Step 4: Ok(movingAverageData), or Thrown when the engine throws
MovingAverageData(dataForAnalysis, ma) ==
    IF ma.type # "none" /\ ma.visible /\ Len(dataForAnalysis) > 0
    THEN LET values == MapValue(dataForAnalysis)
             r == IF ma.type = "sma"
                  THEN calculateSimpleMovingAverage(values, ma.windowSize)
                  ELSE calculateExponentialMovingAverage(values, ma.alpha)
         IN  IF r.ok THEN Ok(Some(r.val)) ELSE Thrown
    ELSE Ok(NULL)

\* mutant: one point is enough to fit a trend
TrendDataFromOnePoint(dataForAnalysis, tl) ==
    IF tl.enabled /\ Len(dataForAnalysis) >= 1
    THEN LET x == [i \in 1..Len(dataForAnalysis) |-> R(dataForAnalysis[i].timestamp)]
             y == MapValue(dataForAnalysis)
             r == calculateLinearTrend(x, y)
         IN  IF r.ok THEN Ok(Some(r.val)) ELSE Thrown
    ELSE Ok(NULL)

\* Step 5: Ok(trendData), or Thrown when the engine throws
TrendData(dataForAnalysis, tl) ==
    IF tl.enabled /\ Len(dataForAnalysis) >= 2
    THEN LET x == [i \in 1..Len(dataForAnalysis) |-> R(dataForAnalysis[i].timestamp)]
             y == MapValue(dataForAnalysis)
             r == calculateLinearTrend(x, y)
         IN  IF r.ok THEN Ok(Some(r.val)) ELSE Thrown
    ELSE Ok(NULL)

\* (point.value - mean) / stdDev.  The square root is not taken: a finite
\* z-score is held as its sign and its square.
ZScore(value, mean, variance) ==
    LET dev == RSub(value, mean)
        sign == IF RIsZero(dev) THEN 0 ELSE IF RLt(dev, R(0)) THEN -1 ELSE 1
    IN  IF RIsZero(variance)
        THEN [kind |-> IF sign = 0 THEN "NaN" ELSE "Infinity",
              sign |-> sign, square |-> R(0)]
        ELSE [kind |-> "finite", sign |-> sign,
              square |-> RDiv(RMul(dev, dev), variance)]

\* mutant: the anomaly entries carry one-based positions
AnomaliesOneBasedIndex(dataForAnalysis, an) ==
    IF an.enabled /\ Len(dataForAnalysis) > 0
    THEN LET values == MapValue(dataForAnalysis)
             indices == detectAnomalies(values, an.threshold)
             mean == RMean(values)
             variance == Variance(values)
         IN  [k \in 1..Len(indices) |->
                LET point == dataForAnalysis[indices[k] + 1]
                IN  [index |-> indices[k] + 1,
                     timestamp |-> point.timestamp,
                     value |-> point.value,
                     zScore |-> ZScore(point.value, mean, variance)]]
    ELSE <<>>

\* Step 6: anomalies
Anomalies(dataForAnalysis, an) ==
    IF an.enabled /\ Len(dataForAnalysis) > 0
    THEN LET values == MapValue(dataForAnalysis)
             indices == detectAnomalies(values, an.threshold)
             mean == RMean(values)
             variance == Variance(values)
         IN  [k \in 1..Len(indices) |->
                LET point == dataForAnalysis[indices[k] + 1]
                IN  [index |-> indices[k],
                     timestamp |-> point.timestamp,
                     value |-> point.value,
                     zScore |-> ZScore(point.value, mean, variance)]]
    ELSE <<>>

\* The whole callback: Ok(ProcessedData), or Thrown when a step throws
ComputeProcessedData(raw, dr, vr, ma, tl, ag, an) ==
    IF Len(raw) = 0
    THEN Ok([filteredData |-> <<>>, movingAverageData |-> NULL, trendData |-> NULL,
             aggregatedData |-> NULL, anomalies |-> <<>>])
    ELSE LET filtered == FilteredData(raw, dr, vr)
             aggregatedData == AggregatedData(filtered, ag)
             dataForAnalysis == DataForAnalysis(filtered, aggregatedData)
             movingAverageData == MovingAverageData(dataForAnalysis, ma)
             trendData == TrendData(dataForAnalysis, tl)
         IN  IF ~movingAverageData.ok \/ ~trendData.ok
             THEN Thrown
             ELSE Ok([filteredData |-> filtered,
                      movingAverageData |-> movingAverageData.val,
                      trendData |-> trendData.val,
                      aggregatedData |-> aggregatedData,
                      anomalies |-> Anomalies(dataForAnalysis, an)])

\* The series AnalysisPanel hands to the AnomalyDetection control as dataPoints
AnomalyDetectionDataPoints(processedData) ==
    IF processedData.aggregatedData # NULL
    THEN Get(processedData.aggregatedData)
    ELSE processedData.filteredData

-----------------------------------------------------------------------------
(* AnalysisPanel.tsx: initial hook state *)

InitialDateRange == [startDate |-> NULL, endDate |-> NULL]

InitialValueRange == [min |-> NULL, max |-> NULL, excludeOutliers |-> FALSE]

InitialMovingAverage ==
    [type |-> "none", windowSize |-> 7, alpha |-> Frac(3, 10), visible |-> TRUE]

InitialTrendLine == [enabled |-> FALSE, trendData |-> NULL]

InitialAggregation == [enabled |-> FALSE, period |-> "daily", func |-> "mean"]

InitialAnomaly == [enabled |-> FALSE, threshold |-> R(2), excludeFromStats |-> FALSE]

-----------------------------------------------------------------------------
(* Bounds and sample inputs *)

\* longest array handed to an engine, and longest raw series
MaxLen == 3

\* hosts east of, at and west of Greenwich
TzOffsets == {0, 7 * UnitsPerHour, -5 * UnitsPerHour}

EngineValues == {R(1), R(2), R(5)}

RECURSIVE SeqsUpTo(_, _)
SeqsUpTo(S, n) ==
    IF n = 0 THEN {<<>>}
    ELSE LET shorter == SeqsUpTo(S, n - 1)
         IN  shorter \cup {Append(q, e) : q \in {t \in shorter : Len(t) = n - 1}, e \in S}

NumberArrays == SeqsUpTo(EngineValues, MaxLen)

\* the worked examples of the specification
ExampleArrays == {<<R(1), R(2), R(3), R(4), R(5)>>, <<R(10), R(20), R(30)>>,
                  <<R(1), R(1), R(1), R(1), R(100)>>}

\* x and y of the worked example of a fit, and of a single point
TrendExamples == {<<<<R(0), R(1), R(2), R(3)>>, <<R(0), R(2), R(4), R(6)>>>>,
                  <<<<R(3)>>, <<R(7)>>>>}

\* the worked example of the outlier rule, and an unsorted input led by its outlier
IqrExamples == {[i \in 1..10 |-> IF i = 10 THEN R(100) ELSE R(i)],
                <<R(100), R(1), R(2), R(3), R(4), R(5)>>,
                <<R(5), R(-100), R(4), R(3), R(2), R(1), R(200)>>}

WindowSizes == -1..(MaxLen + 1)

Alphas == {Frac(-1, 2), R(0), Frac(3, 10), Frac(1, 2), R(1), Frac(3, 2)}

Thresholds == {R(-1), R(0), Frac(1, 2), Frac(3, 2), R(2)}

\* instants in the first hour, the second day and the sixth week after the epoch
EngineTimestamps == {0, 1, UnitsPerDay + 3, 36 * UnitsPerDay}

\* day numbers around the epoch (-1 is 1969-12-31, 3 a Sunday, 4 a Monday), at the
\* turn of February and of the year 1970, and in the leap year 2024 (19723 is
\* 2024-01-01, 19782 is 2024-02-29)
PeriodDays == {-1, 0, 3, 4, 58, 59, 364, 365, 19723, 19782, 19783}

\* the first, second, an afternoon and the last tick of each of those days
PeriodTimestamps ==
    {d * UnitsPerDay + h : d \in PeriodDays, h \in {0, 1, 13 * UnitsPerHour + 1, UnitsPerDay - 1}}

EnginePoints == {[timestamp |-> t, value |-> v] : t \in EngineTimestamps, v \in {R(1), R(4)}}

EngineSeries == SeqsUpTo(EnginePoints, MaxLen)

EngineCalls ==
    {[fn |-> "sma", data |-> d, windowSize |-> w] :
        d \in NumberArrays, w \in WindowSizes}
    \cup {[fn |-> "sma", data |-> d, windowSize |-> w] : d \in ExampleArrays, w \in {3, 6}}
    \cup {[fn |-> "ema", data |-> d, alpha |-> a] :
        d \in NumberArrays \cup ExampleArrays, a \in Alphas}
    \cup {[fn |-> "linearTrend", x |-> x, y |-> y] : x \in NumberArrays, y \in NumberArrays}
    \cup {[fn |-> "linearTrend", x |-> c[1], y |-> c[2]] : c \in TrendExamples}
    \cup {[fn |-> "aggregate", data |-> d, period |-> p, func |-> f] :
        d \in EngineSeries, p \in AggregationPeriods, f \in AggregationFunctions}
    \cup {[fn |-> "getPeriodStart", timestamp |-> t, period |-> p] :
        t \in PeriodTimestamps, p \in AggregationPeriods}
    \cup {[fn |-> "detectAnomalies", data |-> d, threshold |-> t] :
        d \in NumberArrays \cup ExampleArrays, t \in Thresholds}
    \cup {[fn |-> "computeIQR", data |-> d] :
        d \in NumberArrays \cup ExampleArrays \cup IqrExamples}

\* representable numbers whose repeated sum is rounded: 7/4 and 15/8 use every
\* bit of a significand of four and five bits
RoundedValues == {R(1), Frac(5, 4), Frac(7, 4), Frac(15, 8)}

RoundedCalls ==
    {[fn |-> "detectAnomalies", data |-> d, threshold |-> t] :
        d \in SeqsUpTo(RoundedValues, MaxLen), t \in {Frac(1, 2), R(2)}}
    \cup {[fn |-> "linearTrend", x |-> x, y |-> y] :
        x \in SeqsUpTo(RoundedValues, MaxLen), y \in SeqsUpTo({R(1), R(2), R(4)}, MaxLen)}

-----------------------------------------------------------------------------
(* Direct calls of the engines: each engine applied to one drawn input *)

\* no loading component is mounted outside their own specification
LoaderUnmounted ==
    /\ selected = NULL
    /\ requests = <<>>
    /\ loader = NULL

\* the panel is not mounted while the engines are exercised on their own
PanelUnmounted ==
    /\ rawData = <<>>
    /\ dateRange = InitialDateRange
    /\ valueRange = InitialValueRange
    /\ movingAverage = InitialMovingAverage
    /\ trendLine = InitialTrendLine
    /\ aggregation = InitialAggregation
    /\ anomaly = InitialAnomaly
    /\ dateRangeFilter = NULL
    /\ valueRangeFilter = NULL
    /\ movingAverageControl = NULL
    /\ trendLineControl = NULL
    /\ aggregationControl = NULL
    /\ anomalyDetection = NULL
    /\ phase = "unmounted"
    /\ touched = {}
    /\ rendered = NULL
    /\ pendingEffects = {}
    /\ memo = NULL
    /\ emitted = NULL
    /\ userActions = 0

InitEngine ==
    /\ PanelUnmounted
    /\ call \in EngineCalls
    /\ tzOffset \in (IF call.fn \in {"aggregate", "getPeriodStart"} THEN TzOffsets ELSE {0})
    /\ ret = NULL
    /\ heap = <<>>
    /\ LoaderUnmounted

Returns(fn, result) ==
    /\ call.fn = fn
    /\ ret = NULL
    /\ ret' = Some(result)
    /\ UNCHANGED <<rawData, tzOffset, panelVars, controlVars, reactVars, call, heap, loadVars>>

CallSma == Returns("sma", calculateSimpleMovingAverage(call.data, call.windowSize))

CallEma == Returns("ema", calculateExponentialMovingAverage(call.data, call.alpha))

CallLinearTrend == Returns("linearTrend", calculateLinearTrend(call.x, call.y))

CallAggregate ==
    Returns("aggregate", Ok(aggregateByTimePeriod(call.data, call.period, call.func)))

CallGetPeriodStart ==
    Returns("getPeriodStart", Ok(getPeriodStart(call.timestamp, call.period)))

CallDetectAnomalies ==
    Returns("detectAnomalies", Ok(detectAnomalies(call.data, call.threshold)))

CallComputeIQR == Returns("computeIQR", Ok(calculateIQR(call.data)))

NextEngine ==
    \/ CallSma
    \/ CallEma
    \/ CallLinearTrend
    \/ CallAggregate
    \/ CallGetPeriodStart
    \/ CallDetectAnomalies
    \/ CallComputeIQR

SpecEngine == InitEngine /\ [][NextEngine]_vars

-----------------------------------------------------------------------------
(* Direct calls of the engines whose degenerate cases rest on a computed     *)
(* number being exactly zero, with every operation rounded                   *)

InitRounded ==
    /\ PanelUnmounted
    /\ call \in RoundedCalls
    /\ tzOffset = 0
    /\ ret = NULL
    /\ heap = <<>>
    /\ LoaderUnmounted

CallLinearTrendRounded ==
    Returns("linearTrend", calculateLinearTrendRounded(call.x, call.y))

CallDetectAnomaliesRounded ==
    Returns("detectAnomalies", Ok(detectAnomaliesRounded(call.data, call.threshold)))

NextRounded ==
    \/ CallLinearTrendRounded
    \/ CallDetectAnomaliesRounded

SpecRounded == InitRounded /\ [][NextRounded]_vars

-----------------------------------------------------------------------------
(* Claims about the engines, checked under SpecEngine *)

Returned == ret # NULL

Result == Get(ret)

\* the series handed to the engine has length zero (getPeriodStart, the helper
\* of aggregate, takes one instant and no series)
EmptyInput ==
    CASE call.fn = "linearTrend" -> Len(call.x) = 0 /\ Len(call.y) = 0
      [] call.fn = "getPeriodStart" -> FALSE
      [] OTHER -> Len(call.data) = 0

\* the parameters other than the series are well formed
WellFormedParameters ==
    CASE call.fn = "sma" -> call.windowSize >= 1
      [] call.fn = "ema" -> RLt(R(0), call.alpha) /\ RLe(call.alpha, R(1))
      [] OTHER -> TRUE

ZeroIQR ==
    [q1 |-> R(0), q3 |-> R(0), iqr |-> R(0), lowerBound |-> R(0),
     upperBound |-> R(0), outlierIndices |-> <<>>]

\* C8 as stated: every engine, called with a zero-length series and otherwise
\* well-formed parameters, returns an empty or default result and does not throw.
C8_EveryEngineAcceptsEmptyInput ==
    (Returned /\ EmptyInput /\ WellFormedParameters) =>
        /\ Result.ok
        /\ Result.val = IF call.fn = "computeIQR" THEN ZeroIQR ELSE <<>>

\* C8 as amended: with a zero-length series ema, aggregate, detectAnomalies and
\* computeIQR return the empty array (computeIQR: all-zero bounds and no
\* outliers) without throwing, while sma and linearTrend throw.
C8_EmptyInputAmended ==
    (Returned /\ EmptyInput /\ WellFormedParameters) =>
        IF call.fn \in {"sma", "linearTrend"}
        THEN ~Result.ok
        ELSE /\ Result.ok
             /\ Result.val = IF call.fn = "computeIQR" THEN ZeroIQR ELSE <<>>

\* sma was called with an empty array and a positive window, and threw
C8_Witness ==
    /\ Returned
    /\ call.fn = "sma" /\ Len(call.data) = 0 /\ call.windowSize = 1
    /\ ~Result.ok

\* C9: an engine throws exactly on parameter misuse: sma iff window <= 0 or
\* window > length; ema iff alpha is outside (0,1]; linearTrend iff the arrays
\* differ in length or are empty.  The other engines never throw.
C9_EnginesThrowExactlyOnMisuse ==
    Returned =>
        CASE call.fn = "sma" ->
               ~Result.ok <=> (call.windowSize <= 0 \/ call.windowSize > Len(call.data))
          [] call.fn = "ema" ->
               ~Result.ok <=> ~(RLt(R(0), call.alpha) /\ RLe(call.alpha, R(1)))
          [] call.fn = "linearTrend" ->
               ~Result.ok <=> (Len(call.x) # Len(call.y) \/ Len(call.x) = 0)
          [] OTHER -> Result.ok

\* linearTrend returned a result for identical x and constant y (zero variance)
C9_Witness ==
    /\ Returned
    /\ call.fn = "linearTrend"
    /\ Len(call.x) = MaxLen /\ Len(call.y) = MaxLen
    /\ \A i \in 1..MaxLen : call.x[i] = call.x[1] /\ call.y[i] = call.y[1]
    /\ Result.ok

\* sum of data[lo..hi], 0-based and inclusive
RECURSIVE RangeSum(_, _, _)
RangeSum(data, lo, hi) ==
    IF hi < lo THEN R(0) ELSE RAdd(RangeSum(data, lo, hi - 1), data[hi + 1])

C11_EmaValues ==
    (Returned /\ call.fn = "ema" /\ RLt(R(0), call.alpha) /\ RLe(call.alpha, R(1))) =>
        /\ Result.ok
        /\ Len(Result.val) = Len(call.data)
        /\ Len(call.data) > 0 => Result.val[1] = call.data[1]
        /\ \A t \in 2..Len(call.data) :
              Result.val[t] = RAdd(RMul(call.alpha, call.data[t]),
                                   RMul(RSub(R(1), call.alpha), Result.val[t - 1]))
        /\ (call.data = <<R(10), R(20), R(30)>> /\ call.alpha = Frac(1, 2)) =>
              Result.val = <<R(10), R(15), Frac(45, 2)>>

\* the worked example was computed, with a smoothing factor other than 1/2 also tried
C11_Witness ==
    /\ Returned
    /\ call.fn = "ema"
    /\ call.data = <<R(10), R(20), R(30)>> /\ call.alpha = Frac(3, 10)
    /\ Result.ok
    /\ Result.val = <<R(10), R(13), Frac(181, 10)>>

\* the arguments are accepted and at least two x values differ
RegressionDefined ==
    /\ Len(call.x) = Len(call.y)
    /\ Len(call.x) > 0
    /\ \E i, j \in 1..Len(call.x) : call.x[i] # call.x[j]

\* sum over the points of (a[i] - mean(a)) * (b[i] - mean(b))
CentredProduct(a, b) ==
    RSum([i \in 1..Len(a) |-> RMul(RSub(a[i], RMean(a)), RSub(b[i], RMean(b)))])

\* sum over the points of the squared distance of y[i] from slope * x[i] + intercept
SquaredResiduals(x, y, slope, intercept) ==
    RSum([i \in 1..Len(x) |->
            LET e == RSub(y[i], RAdd(RMul(slope, x[i]), intercept)) IN RMul(e, e)])

\* every point lies on the line y = a * x + b
OnLine(x, y, a, b) == \A i \in 1..Len(x) : y[i] = RAdd(RMul(a, x[i]), b)

\* C12: for equal-length non-empty x and y with at least two distinct x values,
\* linearTrend returns the centred least-squares slope, the intercept
\* yMean - slope * xMean and r2 = 1 - SSres/SStot (where SStot is not 0); points
\* exactly on a non-horizontal line y = a*x + b give slope a, intercept b and
\* r2 1, as x = [0,1,2,3], y = [0,2,4,6] gives 2, 0 and 1.
C12_LeastSquaresFit ==
    (Returned /\ call.fn = "linearTrend" /\ RegressionDefined) =>
        /\ Result.ok
        /\ Result.val.slope = RDiv(CentredProduct(call.x, call.y),
                                   CentredProduct(call.x, call.x))
        /\ Result.val.intercept =
              RSub(RMean(call.y), RMul(Result.val.slope, RMean(call.x)))
        /\ ~RIsZero(CentredProduct(call.y, call.y)) =>
              Result.val.r2 =
                 RSub(R(1), RDiv(SquaredResiduals(call.x, call.y, Result.val.slope,
                                                  Result.val.intercept),
                                 CentredProduct(call.y, call.y)))
        /\ \A i, j \in 1..Len(call.x) :
              call.x[i] # call.x[j] =>
                 LET a == RDiv(RSub(call.y[j], call.y[i]), RSub(call.x[j], call.x[i]))
                     b == RSub(call.y[i], RMul(a, call.x[i]))
                 IN  (OnLine(call.x, call.y, a, b) /\ ~RIsZero(a)) =>
                        Result.val = [slope |-> a, intercept |-> b, r2 |-> R(1)]
        /\ (call.x = <<R(0), R(1), R(2), R(3)>> /\ call.y = <<R(0), R(2), R(4), R(6)>>) =>
              Result.val = [slope |-> R(2), intercept |-> R(0), r2 |-> R(1)]

\* a fit through points that are not on one line: x = [1,2,5], y = [1,5,2]
C12_Witness ==
    /\ Returned
    /\ call.fn = "linearTrend"
    /\ call.x = <<R(1), R(2), R(5)>> /\ call.y = <<R(1), R(5), R(2)>>
    /\ Result.ok
    /\ ~RIsZero(Result.val.slope)
    /\ RLt(R(0), Result.val.r2) /\ RLt(Result.val.r2, R(1))

\* the worked example of a fit through points on a line was computed
C12_WitnessOnLine ==
    /\ Returned
    /\ call.fn = "linearTrend"
    /\ call.x = <<R(0), R(1), R(2), R(3)>> /\ call.y = <<R(0), R(2), R(4), R(6)>>
    /\ Result.ok
    /\ Result.val.slope = R(2)

\* every element of the array equals its first
AllEqual(a) == \A i \in 1..Len(a) : a[i] = a[1]

\* the value at 0-based position k of the ascending arrangement of data: fewer
\* than k + 1 values lie below it and at least k + 1 values do not lie above it
ValueAtSortedPosition(data, k) ==
    CHOOSE v \in {data[i] : i \in 1..Len(data)} :
        /\ Cardinality({i \in 1..Len(data) : RLt(data[i], v)}) <= k
        /\ Cardinality({i \in 1..Len(data) : RLe(data[i], v)}) > k

\* floor(num * n / 4)
QuarterPosition(num, n) == CHOOSE k \in 0..n : 4 * k <= num * n /\ num * n < 4 * (k + 1)

\* C15: computeIQR takes q1 and q3 at positions floor(0.25 n) and floor(0.75 n)
\* of an ascending sorted copy; iqr = q3 - q1, lowerBound = q1 - 1.5 iqr,
\* upperBound = q3 + 1.5 iqr; outlierIndices are exactly the positions, in the
\* original unsorted input, of the values below lowerBound or above upperBound.
\* Empty input gives the all-zero result without outliers, and [1,2,...,9,100]
\* gives exactly the index of 100.
C15_IqrAndOutliers ==
    (Returned /\ call.fn = "computeIQR") =>
        LET data == call.data
            n == Len(data)
            r == Result.val
        IN  /\ Result.ok
            /\ n = 0 => r = [q1 |-> R(0), q3 |-> R(0), iqr |-> R(0), lowerBound |-> R(0),
                             upperBound |-> R(0), outlierIndices |-> <<>>]
            /\ n > 0 =>
                  /\ r.q1 = ValueAtSortedPosition(data, QuarterPosition(1, n))
                  /\ r.q3 = ValueAtSortedPosition(data, QuarterPosition(3, n))
                  /\ r.iqr = RSub(r.q3, r.q1)
                  /\ r.lowerBound = RSub(r.q1, RMul(Frac(3, 2), r.iqr))
                  /\ r.upperBound = RAdd(r.q3, RMul(Frac(3, 2), r.iqr))
            /\ {r.outlierIndices[j] : j \in 1..Len(r.outlierIndices)} =
                  {i - 1 : i \in {k \in 1..n : \/ RLt(data[k], r.lowerBound)
                                               \/ RGt(data[k], r.upperBound)}}
            /\ \A j \in 1..(Len(r.outlierIndices) - 1) :
                  r.outlierIndices[j] < r.outlierIndices[j + 1]
            /\ data = [i \in 1..10 |-> IF i = 10 THEN R(100) ELSE R(i)] =>
                  r.outlierIndices = <<9>>

\* an unsorted input whose outlier comes first: its index is 0, not its position
\* 5 in the sorted copy
C15_Witness ==
    /\ Returned
    /\ call.fn = "computeIQR"
    /\ call.data = <<R(100), R(1), R(2), R(3), R(4), R(5)>>
    /\ Result.val.q1 = R(2) /\ Result.val.q3 = R(5)
    /\ Result.val.lowerBound = Frac(-5, 2) /\ Result.val.upperBound = Frac(19, 2)
    /\ Result.val.outlierIndices = <<0>>

\* the worked example was computed
C15_WitnessExample ==
    /\ Returned
    /\ call.fn = "computeIQR"
    /\ call.data = [i \in 1..10 |-> IF i = 10 THEN R(100) ELSE R(i)]
    /\ Result.val.outlierIndices = <<9>>

\* every rearrangement of a sequence
Rearrangements(s) ==
    {[i \in 1..Len(s) |-> s[p[i]]] :
        p \in {q \in [1..Len(s) -> 1..Len(s)] :
                 \A i, j \in 1..Len(s) : q[i] = q[j] => i = j}}

LocalDayOf(timestamp) == ToLocal(timestamp) \div UnitsPerDay

\* the instant is a local midnight
LocalMidnight(timestamp) == ToLocal(timestamp) % UnitsPerDay = 0

\* C17: getPeriodStart(t, period) is the start instant of the calendar period
\* containing t: it is not after t, it is its own period start, and it is the
\* top of t's local hour (hourly), t's local midnight (daily), the local
\* midnight of the Monday on or before t (weekly; a Sunday maps six days
\* back), of day 1 of t's month (monthly) or of January 1 of t's year (yearly).
C17_PeriodStart ==
    (Returned /\ call.fn = "getPeriodStart") =>
        LET t == call.timestamp
            s == Result.val
            civilT == CivilFromDays(LocalDayOf(t))
            civilS == CivilFromDays(LocalDayOf(s))
        IN  /\ s <= t
            /\ getPeriodStart(s, call.period) = s
            /\ call.period = "hourly" =>
                  /\ ToLocal(s) % UnitsPerHour = 0
                  /\ t - s < UnitsPerHour
            /\ call.period # "hourly" => LocalMidnight(s)
            /\ call.period = "daily" => LocalDayOf(s) = LocalDayOf(t)
            /\ call.period = "weekly" =>
                  \* 1970-01-05, day number 4, was a Monday
                  /\ (LocalDayOf(s) - 4) % 7 = 0
                  /\ LocalDayOf(t) - LocalDayOf(s) \in 0..6
                  \* 1970-01-04, day number 3, was a Sunday
                  /\ (LocalDayOf(t) - 3) % 7 = 0 => LocalDayOf(s) = LocalDayOf(t) - 6
            /\ call.period = "monthly" =>
                  /\ civilS.day = 1
                  /\ civilS.month = civilT.month
                  /\ civilS.year = civilT.year
            /\ call.period = "yearly" =>
                  /\ civilS.day = 1
                  /\ civilS.month = 1
                  /\ civilS.year = civilT.year

\* the week of a local Sunday afternoon was found to start six days earlier
C17_Witness ==
    /\ Returned
    /\ call.fn = "getPeriodStart"
    /\ call.period = "weekly"
    /\ (LocalDayOf(call.timestamp) - 3) % 7 = 0
    /\ ~LocalMidnight(call.timestamp)
    /\ LocalDayOf(Result.val) = LocalDayOf(call.timestamp) - 6
    /\ LocalMidnight(Result.val)

\* the month of 29 February 2024 was found to start on 1 February 2024
C17_WitnessLeapDay ==
    /\ Returned
    /\ call.fn = "getPeriodStart"
    /\ call.period = "monthly"
    /\ CivilFromDays(LocalDayOf(call.timestamp)) = [year |-> 2024, month |-> 2, day |-> 29]
    /\ CivilFromDays(LocalDayOf(Result.val)) = [year |-> 2024, month |-> 2, day |-> 1]

\* the positions of the raw points that fall into the bucket starting at key
BucketMembers(data, period, key) ==
    {i \in 1..Len(data) : getPeriodStart(data[i].timestamp, period) = key}

\* the sum of the values at a set of positions
RECURSIVE SumAt(_, _)
SumAt(positions, data) ==
    IF positions = {} THEN R(0)
    ELSE LET i == CHOOSE k \in positions : TRUE
         IN  RAdd(data[i].value, SumAt(positions \ {i}, data))

\* the values at a set of positions, in the order of data
ValuesAt(positions, data) ==
    LET RECURSIVE From(_)
        From(i) == IF i > Len(data) THEN <<>>
                   ELSE (IF i \in positions THEN <<data[i].value>> ELSE <<>>) \o From(i + 1)
    IN  From(1)

\* C18: each bucket is reduced by the selected function: count is the number
\* of raw points in the bucket (so the counts sum to the input length), mean,
\* sum, min and max are the usual statistics of the bucket's values, and
\* median is the middle value of the sorted values (odd count) or the mean of
\* the two middle values (even count).
C18_BucketStatistics ==
    (Returned /\ call.fn = "aggregate") =>
        LET out == Result.val
            data == call.data
        IN  /\ \A k \in 1..Len(out) :
                  LET members == BucketMembers(data, call.period, out[k].timestamp)
                      n == Cardinality(members)
                      values == ValuesAt(members, data)
                      v == out[k].value
                  IN  /\ n > 0
                      /\ call.func = "count" => v = R(n)
                      /\ call.func = "sum" => v = SumAt(members, data)
                      /\ call.func = "mean" => v = RDiv(SumAt(members, data), R(n))
                      /\ call.func = "min" =>
                            /\ \E i \in members : data[i].value = v
                            /\ \A i \in members : RLe(v, data[i].value)
                      /\ call.func = "max" =>
                            /\ \E i \in members : data[i].value = v
                            /\ \A i \in members : RLe(data[i].value, v)
                      /\ (call.func = "median" /\ n % 2 = 1) =>
                            v = ValueAtSortedPosition(values, (n - 1) \div 2)
                      /\ (call.func = "median" /\ n % 2 = 0) =>
                            v = RDiv(RAdd(ValueAtSortedPosition(values, n \div 2 - 1),
                                          ValueAtSortedPosition(values, n \div 2)),
                                     R(2))
            /\ call.func = "count" =>
                  RSum([k \in 1..Len(out) |-> out[k].value]) = R(Len(data))

\* the median of a bucket of two different values is their mean
C18_Witness ==
    /\ Returned
    /\ call.fn = "aggregate"
    /\ call.func = "median"
    /\ Len(call.data) = 3
    /\ Len(Result.val) = 2
    /\ \E k \in 1..2 : Result.val[k].value = Frac(5, 2)

\* three raw points were counted into two buckets
C18_WitnessCount ==
    /\ Returned
    /\ call.fn = "aggregate"
    /\ call.func = "count"
    /\ Len(call.data) = 3
    /\ Len(Result.val) = 2
    /\ {Result.val[1].value, Result.val[2].value} = {R(1), R(2)}

\* the population mean and variance (divisor n) of a non-empty array
PopulationMean(data) == RDiv(RSum(data), R(Len(data)))

PopulationVariance(data) ==
    RDiv(RSum([i \in 1..Len(data) |->
                 LET d == RSub(data[i], PopulationMean(data)) IN RMul(d, d)]),
         R(Len(data)))

\* |data[i] - mean| / stdDev > threshold for a threshold > 0, compared in squares;
\* with stdDev = 0 every value equals the mean and the quotient is no number
Beyond(data, i, threshold) ==
    LET d == RSub(data[i], PopulationMean(data))
    IN  /\ ~RIsZero(PopulationVariance(data))
        /\ RGt(RMul(d, d), RMul(RMul(threshold, threshold), PopulationVariance(data)))

C19_WitnessSeveral ==
    /\ Returned
    /\ call.fn = "detectAnomalies"
    /\ call.data = <<R(1), R(2), R(5)>>
    /\ call.threshold = Frac(1, 2)
    /\ Result.val = <<0, 2>>

\* C13: when all x values are identical (a single point included) linearTrend
\* returns slope 0 and the mean of y as intercept; when y is constant it
\* returns r2 = 0.
C13_DegenerateFit ==
    (Returned /\ call.fn = "linearTrend" /\ Len(call.x) = Len(call.y) /\ Len(call.x) > 0) =>
        /\ Result.ok
        /\ AllEqual(call.x) =>
              /\ Result.val.slope = R(0)
              /\ Result.val.intercept = MeanRounded(call.y)
        /\ AllEqual(call.y) => Result.val.r2 = R(0)

\* C20: a point whose value equals the mean is never flagged, and when all
\* input values are identical detectAnomalies flags no index, whatever the
\* threshold.
C20_DegenerateZScore ==
    (Returned /\ call.fn = "detectAnomalies") =>
        /\ \A i \in 1..Len(call.data) :
              call.data[i] = MeanRounded(call.data) =>
                 \A j \in 1..Len(Result.val) : Result.val[j] # i - 1
        /\ AllEqual(call.data) => Result.val = <<>>

-----------------------------------------------------------------------------
(* The processedData callback applied to drawn (series, parameters) *)

\* longest raw series
MaxPoints == 3

\* sample points: two at the epoch, one a tick later, one in the second hour
PipelinePoints ==
    {[timestamp |-> 0, value |-> R(1)],
     [timestamp |-> 0, value |-> R(4)],
     [timestamp |-> 1, value |-> R(4)],
     [timestamp |-> UnitsPerHour, value |-> R(1)]}

RawSeries == SeqsUpTo(PipelinePoints, MaxPoints)

Nullable(S) == {NULL} \cup {Some(x) : x \in S}

\* every date and value range over the sample bounds, reversed ones included
FilterParameters ==
    {[dateRange |-> [startDate |-> s, endDate |-> e],
      valueRange |-> [min |-> lo, max |-> hi, excludeOutliers |-> FALSE],
      movingAverage |-> InitialMovingAverage,
      trendLine |-> InitialTrendLine,
      aggregation |-> InitialAggregation,
      anomaly |-> InitialAnomaly] :
        s \in Nullable({1, UnitsPerHour}), e \in Nullable({1, UnitsPerHour}),
        lo \in Nullable({R(1), R(4)}), hi \in Nullable({R(1), R(4)})}

\* the analysis stages switched on and off behind a filter
CompositionParameters ==
    {[dateRange |-> [startDate |-> s, endDate |-> NULL],
      valueRange |-> [min |-> NULL, max |-> hi, excludeOutliers |-> FALSE],
      movingAverage |-> ma,
      trendLine |-> [enabled |-> tl, trendData |-> NULL],
      aggregation |-> ag,
      anomaly |-> [enabled |-> an, threshold |-> Frac(1, 2), excludeFromStats |-> FALSE]] :
        s \in Nullable({1}), hi \in Nullable({R(1)}),
        ma \in {InitialMovingAverage,
                [type |-> "sma", windowSize |-> 1, alpha |-> Frac(3, 10), visible |-> TRUE],
                [type |-> "sma", windowSize |-> 2, alpha |-> Frac(3, 10), visible |-> TRUE],
                [type |-> "ema", windowSize |-> 7, alpha |-> Frac(1, 2), visible |-> TRUE],
                [type |-> "ema", windowSize |-> 7, alpha |-> Frac(1, 2), visible |-> FALSE]},
        tl \in BOOLEAN,
        ag \in {InitialAggregation}
               \cup {[enabled |-> TRUE, period |-> p, func |-> f] :
                       p \in {"hourly", "daily"}, f \in {"mean", "count", "median"}},
        an \in BOOLEAN}

ControlsUnmounted ==
    /\ dateRangeFilter = NULL
    /\ valueRangeFilter = NULL
    /\ movingAverageControl = NULL
    /\ trendLineControl = NULL
    /\ aggregationControl = NULL
    /\ anomalyDetection = NULL

InitPipeline ==
    /\ rawData \in RawSeries
    /\ tzOffset = 0
    /\ \E p \in FilterParameters \cup CompositionParameters :
          /\ dateRange = p.dateRange
          /\ valueRange = p.valueRange
          /\ movingAverage = p.movingAverage
          /\ trendLine = p.trendLine
          /\ aggregation = p.aggregation
          /\ anomaly = p.anomaly
    /\ ControlsUnmounted
    /\ phase = "unmounted"
    /\ touched = {}
    /\ rendered = NULL
    /\ pendingEffects = {}
    /\ memo = NULL
    /\ emitted = NULL
    /\ userActions = 0
    /\ call = NULL
    /\ ret = NULL
    /\ heap = <<>>
    /\ LoaderUnmounted

\* one evaluation of the callback
Recompute ==
    /\ memo = NULL
    /\ memo' = Some(ComputeProcessedData(rawData, dateRange, valueRange, movingAverage,
                                         trendLine, aggregation, anomaly))
    /\ UNCHANGED <<rawData, tzOffset, panelVars, controlVars, phase, touched, rendered,
                   pendingEffects, emitted, userActions, engineVars>>

NextPipeline == Recompute

SpecPipeline == InitPipeline /\ [][NextPipeline]_vars

-----------------------------------------------------------------------------
(* Claims about the composition, checked under SpecPipeline *)

Computed == memo # NULL

Outcome == Get(memo)

Processed == Outcome.val

\* the series the claims call "fed to analysis", read off the result
AnalysedSeries ==
    IF Processed.aggregatedData # NULL THEN Get(Processed.aggregatedData)
    ELSE Processed.filteredData

\* C2: aggregation is applied to the date- and value-filtered series; smoothing,
\* trend and anomalies are all computed over one series, the aggregated one when
\* aggregation is enabled and the filtered series is non-empty, else the
\* filtered one; aggregatedData is absent exactly when aggregation is disabled
\* or the filtered series is empty.
C2_FixedCompositionOrder ==
    (Computed /\ Outcome.ok) =>
        LET filtered == Processed.filteredData
            series == AnalysedSeries
            values == MapValue(series)
        IN  /\ (Processed.aggregatedData = NULL)
                  <=> (~aggregation.enabled \/ Len(filtered) = 0)
            /\ Processed.aggregatedData # NULL =>
                  /\ {p.timestamp : p \in {series[i] : i \in 1..Len(series)}}
                       = {getPeriodStart(filtered[i].timestamp, aggregation.period) :
                             i \in 1..Len(filtered)}
                  /\ aggregation.func = "count" => RSum(values) = R(Len(filtered))
                  /\ Get(Processed.aggregatedData)
                       = aggregateByTimePeriod(filtered, aggregation.period, aggregation.func)
            /\ Processed.movingAverageData # NULL =>
                  /\ Len(Get(Processed.movingAverageData)) = Len(series)
                  /\ Get(Processed.movingAverageData)[1] = values[1]
                  /\ movingAverage.type = "sma" =>
                        Ok(Get(Processed.movingAverageData))
                          = calculateSimpleMovingAverage(values, movingAverage.windowSize)
                  /\ movingAverage.type = "ema" =>
                        Ok(Get(Processed.movingAverageData))
                          = calculateExponentialMovingAverage(values, movingAverage.alpha)
            /\ Processed.trendData # NULL =>
                  Ok(Get(Processed.trendData))
                    = calculateLinearTrend([i \in 1..Len(series) |-> R(series[i].timestamp)],
                                           values)
            /\ (trendLine.enabled /\ Len(series) >= 2) => Processed.trendData # NULL
            /\ (movingAverage.type # "none" /\ movingAverage.visible /\ Len(series) > 0)
                  => Processed.movingAverageData # NULL
            /\ \A k \in 1..Len(Processed.anomalies) :
                  LET a == Processed.anomalies[k]
                  IN  /\ a.index < Len(series)
                      /\ a.timestamp = series[a.index + 1].timestamp
                      /\ a.value = series[a.index + 1].value
            /\ [k \in 1..Len(Processed.anomalies) |-> Processed.anomalies[k].index]
                  = (IF anomaly.enabled /\ Len(series) > 0
                     THEN detectAnomalies(values, anomaly.threshold) ELSE <<>>)

\* a filter dropped a point, aggregation merged two of the remaining ones, and
\* smoothing and anomaly detection ran over the aggregated series
C2_Witness ==
    /\ Computed /\ Outcome.ok
    /\ Processed.aggregatedData # NULL
    /\ Len(Get(Processed.aggregatedData)) < Len(Processed.filteredData)
    /\ Len(Processed.filteredData) < Len(rawData)
    /\ Processed.movingAverageData # NULL
    /\ anomaly.enabled

\* the bounds of the two filters, read as the claim states them
InDateRange(t) ==
    /\ dateRange.startDate = NULL \/ Get(dateRange.startDate) <= t
    /\ dateRange.endDate = NULL \/ t <= Get(dateRange.endDate)

InValueRange(v) ==
    /\ valueRange.min = NULL \/ RLe(Get(valueRange.min), v)
    /\ valueRange.max = NULL \/ RLe(v, Get(valueRange.max))

KeptIndices ==
    {i \in 1..Len(rawData) :
        InDateRange(rawData[i].timestamp) /\ InValueRange(rawData[i].value)}

\* the k-th smallest kept index
KeptIndex(k) == CHOOSE i \in KeptIndices : Cardinality({j \in KeptIndices : j < i}) = k - 1

ReversedRange ==
    \/ dateRange.startDate # NULL /\ dateRange.endDate # NULL
         /\ Get(dateRange.startDate) > Get(dateRange.endDate)
    \/ valueRange.min # NULL /\ valueRange.max # NULL
         /\ RGt(Get(valueRange.min), Get(valueRange.max))

\* C6: filteredData is the subsequence of rawData, in order, of the points with
\* start <= timestamp <= end and min <= value <= max (bounds inclusive, an
\* absent bound unconstrained); a reversed range gives the empty series and
\* nothing throws.
C6_FilteredIsInclusiveSubsequence ==
    /\ (Computed /\ Outcome.ok) =>
          /\ Len(Processed.filteredData) = Cardinality(KeptIndices)
          /\ \A k \in 1..Len(Processed.filteredData) :
                Processed.filteredData[k] = rawData[KeptIndex(k)]
    /\ (Computed /\ ReversedRange) => Outcome.ok /\ Processed.filteredData = <<>>

\* both filters are set, a point on the end bound was kept and another dropped
C6_Witness ==
    /\ Computed /\ Outcome.ok
    /\ dateRange.startDate # NULL /\ dateRange.endDate # NULL
    /\ valueRange.min # NULL /\ valueRange.max # NULL
    /\ Len(Processed.filteredData) > 0
    /\ Len(Processed.filteredData) < Len(rawData)
    /\ \E k \in 1..Len(Processed.filteredData) :
          /\ Processed.filteredData[k].timestamp = Get(dateRange.endDate)
          /\ Processed.filteredData[k].value = Get(valueRange.min)

\* C14: the result carries trendData exactly when the trend line is enabled and
\* the series fed to analysis (the aggregated one when aggregation is active,
\* else the filtered one) has at least two points; with fewer points trendData
\* is absent and the trend step raises no error.
C14_TrendPresentExactlyWhenFittable ==
    Computed =>
        /\ Outcome.ok =>
              (Processed.trendData # NULL <=>
                  (trendLine.enabled /\ Len(AnalysedSeries) >= 2))
        /\ Outcome.ok =
              ComputeProcessedData(rawData, dateRange, valueRange, movingAverage,
                                   [trendLine EXCEPT !.enabled = FALSE],
                                   aggregation, anomaly).ok

\* the trend line is enabled, two filtered points fall into one bucket, and the
\* result carries no trend
C14_Witness ==
    /\ Computed
    /\ Outcome.ok
    /\ trendLine.enabled
    /\ aggregation.enabled
    /\ Len(Processed.filteredData) >= 2
    /\ Len(AnalysedSeries) = 1
    /\ Processed.trendData = NULL

\* the trend line is enabled and the result carries a fit of two buckets
C14_WitnessPresent ==
    /\ Computed
    /\ Outcome.ok
    /\ trendLine.enabled
    /\ aggregation.enabled
    /\ Len(AnalysedSeries) = 2
    /\ Processed.trendData # NULL

\* the series Step 6 ran the detector on, recomputed from the parameters
DetectorSeries ==
    LET filtered == FilteredData(rawData, dateRange, valueRange)
    IN  DataForAnalysis(filtered, AggregatedData(filtered, aggregation))

\* C21: every anomaly of the result refers to a position of the series the
\* detector ran on (the aggregated series when aggregation is active, else the
\* filtered one): its index is within that series, its timestamp and value
\* are those of the point there, and its z-score is larger in magnitude than
\* the threshold; the control receives that same series as dataPoints.
C21_AnomaliesReferToDetectorSeries ==
    (Computed /\ Outcome.ok) =>
        /\ AnomalyDetectionDataPoints(Processed) = DetectorSeries
        /\ \A k \in 1..Len(Processed.anomalies) :
              LET a == Processed.anomalies[k]
              IN  /\ a.index \in 0..(Len(DetectorSeries) - 1)
                  /\ a.timestamp = DetectorSeries[a.index + 1].timestamp
                  /\ a.value = DetectorSeries[a.index + 1].value
                  /\ a.zScore.kind = "finite"
                  /\ a.zScore.sign # 0
                  /\ RGt(a.zScore.square,
                         RMul(anomaly.threshold, anomaly.threshold))

\* aggregation merged two points and a bucket other than the first is anomalous
C21_Witness ==
    /\ Computed /\ Outcome.ok
    /\ Processed.aggregatedData # NULL
    /\ Len(Get(Processed.aggregatedData)) < Len(Processed.filteredData)
    /\ \E k \in 1..Len(Processed.anomalies) : Processed.anomalies[k].index > 0

-----------------------------------------------------------------------------
(* The pipeline as a program over arrays that are objects.  heap[a] holds    *)
(* the elements of the array at address a; an operation takes the addresses *)
(* of its arguments and gives back the heap it leaves and the address of    *)
(* what it returns.  Every array expression of the code that creates an     *)
(* array allocates ([], [...a], slice, map, filter); push and sort write    *)
(* the array they are called on.  Points are never assigned to, so they     *)
(* stay values.                                                             *)

\* the prop rawData, and dataBounds.values computed from it at the first render
rawDataRef == 1

allValuesRef == 2

\* the null reference
NoRef == 0

\* the value of an expression, computed once and then named: TheOne({e(x) : x \in {v}})
TheOne(S) == CHOOSE x \in S : TRUE

\* a new array holding items
Allocate(h, items) == [heap |-> Append(h, items), ref |-> Len(h) + 1]

\* [...array]
Spread(h, a) == Allocate(h, h[a])

\* array.sort(compare), given the order it produces: the array itself is rearranged
SortInPlace(h, a, sorted) == [heap |-> [h EXCEPT ![a] = sorted], ref |-> a]

\* mutant: data.sort((a, b) => a - b) on the argument, without the copy
SortedArgument(h, a) == SortInPlace(h, a, SortNumbers(h[a]))

\* [...values].sort((a, b) => a - b)
SortedCopy(h, a) ==
    LET copy == Spread(h, a)
    IN  SortInPlace(copy.heap, copy.ref, SortNumbers(copy.heap[copy.ref]))

\* data.filter(...) of the two filters
HeapFilterByDateRange(h, data, startDate, endDate) ==
    Allocate(h, filterByDateRange(h[data], startDate, endDate))

HeapFilterByValueRange(h, data, min, max) ==
    Allocate(h, filterByValueRange(h[data], min, max))

\* data.map(d => d.value), data.map(d => d.timestamp)
HeapMapValue(h, data) == Allocate(h, MapValue(h[data]))

HeapMapTimestamp(h, data) == Allocate(h, MapTimestamp(h[data]))

\* applyAggregationFunction: only the median makes an array, the sorted copy
HeapApplyAggregationFunction(h, values, func) ==
    IF func = "median" THEN SortedCopy(h, values).heap ELSE h

\* the forEach over data and the forEach over groups: one array per key, filled
\* by push, then read by applyAggregationFunction
RECURSIVE HeapGroups(_, _, _, _, _)
HeapGroups(h, data, period, func, keys) ==
    IF keys = <<>> THEN h
    ELSE TheOne({HeapGroups(read, data, period, func, Tail(keys)) :
                   read \in {HeapApplyAggregationFunction(group.heap, group.ref, func) :
                               group \in {Allocate(h, GroupValues(h[data], period,
                                                                  keys[1]))}}})

\* aggregateByTimePeriod: result is filled in the order of the groups and then
\* sorted where it is
HeapAggregateByTimePeriod(h, data, period, func) ==
    IF Len(h[data]) = 0 THEN Allocate(h, <<>>)
    ELSE TheOne({SortInPlace(result.heap, result.ref,
                             aggregateByTimePeriod(result.heap[data], period, func)) :
                   result \in {Allocate(grouped,
                                        aggregateByTimePeriodUnsorted(grouped[data], period,
                                                                      func)) :
                                 grouped \in {HeapGroups(h, data, period, func,
                                                         InsertionOrder(h[data], period))}}})

\* calculateSimpleMovingAverage, calculateExponentialMovingAverage: result is
\* built by push; the windows are slices
HeapSimpleMovingAverage(h, data, windowSize) ==
    LET result == calculateSimpleMovingAverage(h[data], windowSize)
    IN  IF result.ok THEN Allocate(h, result.val) ELSE [heap |-> h, ref |-> NoRef]

HeapExponentialMovingAverage(h, data, alpha) ==
    LET result == calculateExponentialMovingAverage(h[data], alpha)
    IN  IF result.ok THEN Allocate(h, result.val) ELSE [heap |-> h, ref |-> NoRef]

\* detectAnomalies: anomalyIndices is built by push
HeapDetectAnomalies(h, data, threshold) == Allocate(h, detectAnomalies(h[data], threshold))

\* calculateIQR: the quartiles are read from the sorted copy, the outliers
\* from data as the call leaves it
HeapCalculateIQR(h, data) ==
    IF Len(h[data]) = 0 THEN Allocate(h, <<>>)
    ELSE TheOne({Allocate(sorted.heap, calculateIQR(sorted.heap[data]).outlierIndices) :
                   sorted \in {SortedCopy(h, data)}})

\* the processedData callback: the addresses of the arrays of its result
HeapProcessedData(h, raw, dr, vr, ma, tl, ag, an) ==
    IF Len(h[raw]) = 0
    THEN LET empty == Allocate(h, <<>>)
             none == Allocate(empty.heap, <<>>)
         IN  [heap |-> none.heap, filteredData |-> empty.ref, movingAverageData |-> NoRef,
              aggregatedData |-> NoRef, anomalies |-> none.ref]
    ELSE LET byDate == IF dr.startDate # NULL \/ dr.endDate # NULL
                       THEN HeapFilterByDateRange(h, raw, dr.startDate, dr.endDate)
                       ELSE Spread(h, raw)
             Filtered(dated) ==
                 IF vr.min # NULL \/ vr.max # NULL
                 THEN HeapFilterByValueRange(dated.heap, dated.ref, vr.min, vr.max)
                 ELSE dated
             Aggregated(filtered) ==
                 IF ag.enabled /\ Len(filtered.heap[filtered.ref]) > 0
                 THEN HeapAggregateByTimePeriod(filtered.heap, filtered.ref,
                                                ag.period, ag.func)
                 ELSE [heap |-> filtered.heap, ref |-> NoRef]
             AnalysedRef(filtered, aggregated) ==
                 IF aggregated.ref # NoRef THEN aggregated.ref ELSE filtered.ref
             Smoothed(aggregated, dataForAnalysis) ==
                 IF /\ ma.type # "none"
                    /\ ma.visible
                    /\ Len(aggregated.heap[dataForAnalysis]) > 0
                 THEN TheOne({IF ma.type = "sma"
                              THEN HeapSimpleMovingAverage(values.heap, values.ref,
                                                           ma.windowSize)
                              ELSE HeapExponentialMovingAverage(values.heap, values.ref,
                                                                ma.alpha) :
                                values \in {HeapMapValue(aggregated.heap,
                                                         dataForAnalysis)}})
                 ELSE [heap |-> aggregated.heap, ref |-> NoRef]
             Fitted(smoothed, dataForAnalysis) ==
                 IF tl.enabled /\ Len(smoothed.heap[dataForAnalysis]) >= 2
                 THEN HeapMapValue(HeapMapTimestamp(smoothed.heap, dataForAnalysis).heap,
                                   dataForAnalysis).heap
                 ELSE smoothed.heap
             Detected(fitted, dataForAnalysis) ==
                 IF an.enabled /\ Len(fitted[dataForAnalysis]) > 0
                 THEN TheOne({Spread(mapped.heap, mapped.ref) :
                                mapped \in {Allocate(indices.heap,
                                                     Anomalies(indices.heap[dataForAnalysis],
                                                               an)) :
                                   indices \in {HeapDetectAnomalies(values.heap, values.ref,
                                                                    an.threshold) :
                                      values \in {HeapMapValue(fitted,
                                                               dataForAnalysis)}}}})
                 ELSE Allocate(fitted, <<>>)
         IN  TheOne({TheOne({TheOne({TheOne({
                 [heap |-> anomalies.heap, filteredData |-> filtered.ref,
                  movingAverageData |-> smoothed.ref, aggregatedData |-> aggregated.ref,
                  anomalies |-> anomalies.ref] :
                     anomalies \in
                        {Detected(Fitted(smoothed, AnalysedRef(filtered, aggregated)),
                                  AnalysedRef(filtered, aggregated))}}) :
                     smoothed \in
                        {Smoothed(aggregated, AnalysedRef(filtered, aggregated))}}) :
                     aggregated \in {Aggregated(filtered)}}) :
                     filtered \in {Filtered(dated) : dated \in {byDate}}})

\* ---- recomputations over a raw series that stays the same object

MaxRecomputations == 2

\* the points of the pipeline samples, so that a series may come unsorted
HeapSeries == {s \in RawSeries : Len(s) >= MaxPoints - 1}

HeapParameters ==
    {p \in CompositionParameters :
        /\ p.valueRange.max = NULL
        /\ p.movingAverage.type # "none" => p.movingAverage.windowSize # 2
        /\ p.movingAverage.visible
        /\ p.aggregation.enabled => p.aggregation.period = "hourly"
                                      /\ p.aggregation.func = "median"
        /\ p.trendLine.enabled = p.anomaly.enabled
        /\ p.trendLine.enabled = (p.movingAverage.type # "none")}

InitHeap ==
    /\ rawData \in HeapSeries
    /\ tzOffset = 0
    /\ dateRange = InitialDateRange
    /\ valueRange = InitialValueRange
    /\ movingAverage = InitialMovingAverage
    /\ trendLine = InitialTrendLine
    /\ aggregation = InitialAggregation
    /\ anomaly = InitialAnomaly
    /\ ControlsUnmounted
    /\ phase = "unmounted"
    /\ touched = {}
    /\ rendered = NULL
    /\ pendingEffects = {}
    /\ memo = NULL
    /\ emitted = NULL
    /\ userActions = 0
    /\ call = NULL
    /\ ret = NULL
    /\ heap = <<rawData, MapValue(rawData)>>
    /\ LoaderUnmounted

\* the parameters change and the callback runs again on the same rawData
RecomputeOnHeap ==
    /\ userActions < MaxRecomputations
    /\ \E p \in HeapParameters :
          \E result \in {HeapProcessedData(heap, rawDataRef, p.dateRange, p.valueRange,
                                            p.movingAverage, p.trendLine, p.aggregation,
                                            p.anomaly)} :
              /\ dateRange' = p.dateRange
              /\ valueRange' = p.valueRange
              /\ movingAverage' = p.movingAverage
              /\ trendLine' = p.trendLine
              /\ aggregation' = p.aggregation
              /\ anomaly' = p.anomaly
              /\ heap' = result.heap
              /\ memo' = Some([filteredData |-> result.filteredData,
                               movingAverageData |-> result.movingAverageData,
                               aggregatedData |-> result.aggregatedData,
                               anomalies |-> result.anomalies])
    /\ userActions' = userActions + 1
    /\ UNCHANGED <<rawData, tzOffset, controlVars, phase, touched, rendered,
                   pendingEffects, emitted, call, ret, loadVars>>

\* the effect of ValueRangeFilter that computes the IQR of allValues
ComputeIQROnHeap ==
    /\ ret = NULL
    /\ \E result \in {HeapCalculateIQR(heap, allValuesRef)} :
           /\ heap' = result.heap
           /\ ret' = Some(result.ref)
    /\ UNCHANGED <<rawData, tzOffset, panelVars, controlVars, reactVars, call, loadVars>>

NextHeap ==
    \/ RecomputeOnHeap
    \/ ComputeIQROnHeap

SpecHeap == InitHeap /\ [][NextHeap]_vars

\* C24: no operation of the pipeline changes an array it was given or one
\* made earlier: rawData keeps its elements in their order, and every array
\* that exists before a recomputation or an IQR computation, the arrays of an
\* earlier ProcessedData among them, holds the same elements after it.
C24_NoOperationMutatesAnArray ==
    /\ [](heap # <<>> => heap[rawDataRef] = rawData)
    /\ [][\A a \in 1..Len(heap) : heap'[a] = heap[a]]_vars

\* an unsorted series went through the IQR computation and two recomputations,
\* the second of them taking medians, and an earlier result is still in place
C24_Witness ==
    /\ heap # <<>>
    /\ heap[allValuesRef] # SortNumbers(heap[allValuesRef])
    /\ ret # NULL
    /\ userActions = MaxRecomputations
    /\ aggregation.enabled /\ aggregation.func = "median"
    /\ Get(memo).aggregatedData # NoRef
    /\ Len(heap[Get(memo).aggregatedData]) = 2

-----------------------------------------------------------------------------
(* The mounted AnalysisPanel: its render, its effects and its controls.     *)
(*                                                                         *)
(* A render runs the component functions on the current hook state and     *)
(* keeps what they computed in `rendered`: the closure that the effects and *)
(* the event handlers of that render read.  A state setter called with a   *)
(* fresh object changes the identity of the slot: `touched` holds the      *)
(* panel's slots set since the last render.  isExpanded of the panel and   *)
(* expandedAnomalies of AnomalyDetection only fold parts of the view and   *)
(* are left out.                                                           *)

\* `new Date()`, read when dataBounds is computed for an empty series
MountTime == 3 * UnitsPerDay + 5

MinTimestamp(data) ==
    CHOOSE t \in {data[i].timestamp : i \in 1..Len(data)} :
        \A i \in 1..Len(data) : t <= data[i].timestamp

MaxTimestamp(data) ==
    CHOOSE t \in {data[i].timestamp : i \in 1..Len(data)} :
        \A i \in 1..Len(data) : t >= data[i].timestamp

dataBounds(raw) ==
    IF Len(raw) = 0
    THEN [minDate |-> MountTime, maxDate |-> MountTime,
          minValue |-> R(0), maxValue |-> R(0), values |-> <<>>]
    ELSE [minDate |-> MinTimestamp(raw), maxDate |-> MaxTimestamp(raw),
          minValue |-> MinOf(MapValue(raw)), maxValue |-> MaxOf(MapValue(raw)),
          values |-> MapValue(raw)]

\* format(date, 'yyyy-MM-dd'): the local calendar day, held as its day number
FormatDate(timestamp) == ToLocal(timestamp) \div UnitsPerDay

\* new Date('yyyy-MM-dd'): midnight UTC of that day
ParseDate(day) == day * UnitsPerDay

\* Number.prototype.toFixed(2), read back as a number: halves round away from zero
ToFixed2(x) ==
    LET hundredths == (2 * Abs(x[1]) * 100 + x[2]) \div (2 * x[2])
    IN  Norm((IF x[1] < 0 THEN -1 ELSE 1) * hundredths, 100)

hasActiveFiltersOrAnalysis(s) ==
    \/ s.dateRange.startDate # NULL
    \/ s.dateRange.endDate # NULL
    \/ s.valueRange.min # NULL
    \/ s.valueRange.max # NULL
    \/ s.valueRange.excludeOutliers
    \/ s.movingAverage.type # "none"
    \/ s.trendLine.enabled
    \/ s.aggregation.enabled
    \/ s.anomaly.enabled

\* ---- hook state of the controls at their first render

InitialDateRangeFilter(initialRange) ==
    [startDate |-> IF initialRange.startDate # NULL
                   THEN Some(FormatDate(Get(initialRange.startDate))) ELSE NULL,
     endDate |-> IF initialRange.endDate # NULL
                 THEN Some(FormatDate(Get(initialRange.endDate))) ELSE NULL,
     activePreset |-> "all",
     validationError |-> ""]

InitialValueRangeFilter(initialRange, dataMin, dataMax) ==
    [minValue |-> initialRange.min,
     maxValue |-> initialRange.max,
     excludeOutliers |-> initialRange.excludeOutliers,
     sliderMin |-> dataMin,
     sliderMax |-> dataMax,
     validationError |-> "",
     iqrInfo |-> NULL]

InitialMovingAverageControl(initialSettings) ==
    [type |-> initialSettings.type, windowSize |-> initialSettings.windowSize,
     alpha |-> initialSettings.alpha, visible |-> initialSettings.visible]

InitialTrendLineControl(initialEnabled) == [enabled |-> initialEnabled]

InitialAggregationControl(initialSettings) ==
    [enabled |-> initialSettings.enabled, period |-> initialSettings.period,
     func |-> initialSettings.func]

InitialAnomalyDetection(initialSettings) ==
    [enabled |-> initialSettings.enabled, threshold |-> initialSettings.threshold,
     excludeFromStats |-> initialSettings.excludeFromStats]

\* ---- what the emit effects of the controls compute from their closure

\* mutant: the validation compares the two dates the wrong way round
DateRangeInvalidWhenOrdered(c) ==
    /\ c.startDate # NULL
    /\ c.endDate # NULL
    /\ ParseDate(Get(c.startDate)) < ParseDate(Get(c.endDate))

DateRangeInvalid(c) ==
    /\ c.startDate # NULL
    /\ c.endDate # NULL
    /\ ParseDate(Get(c.startDate)) > ParseDate(Get(c.endDate))

DateRangeEmitted(c) ==
    [startDate |-> IF c.startDate # NULL THEN Some(ParseDate(Get(c.startDate))) ELSE NULL,
     endDate |-> IF c.endDate # NULL THEN Some(ParseDate(Get(c.endDate))) ELSE NULL]

IqrInfo(allValues) ==
    LET iqr == calculateIQR(allValues)
    IN  [lowerBound |-> iqr.lowerBound, upperBound |-> iqr.upperBound,
         outlierCount |-> Len(iqr.outlierIndices)]

ValueRangeInvalid(c) ==
    /\ c.minValue # NULL
    /\ c.maxValue # NULL
    /\ RGt(Get(c.minValue), Get(c.maxValue))

\* mutant: the typed bounds are emitted as they are, also when outliers are excluded
ValueRangeEmittedUnclamped(c) ==
    [min |-> c.minValue, max |-> c.maxValue, excludeOutliers |-> c.excludeOutliers]

ValueRangeEmitted(c) ==
    LET clamp == c.excludeOutliers /\ c.iqrInfo # NULL
        info == Get(c.iqrInfo)
    IN  [min |-> IF clamp
                 THEN Some(RMax(IF c.minValue # NULL THEN Get(c.minValue)
                                ELSE info.lowerBound, info.lowerBound))
                 ELSE c.minValue,
         max |-> IF clamp
                 THEN Some(RMin(IF c.maxValue # NULL THEN Get(c.maxValue)
                                ELSE info.upperBound, info.upperBound))
                 ELSE c.maxValue,
         excludeOutliers |-> c.excludeOutliers]

TrendLineEmitted(c, trendData) == [enabled |-> c.enabled, trendData |-> trendData]

\* ---- the panel's own view of its state

ParentState ==
    [dateRange |-> dateRange, valueRange |-> valueRange, movingAverage |-> movingAverage,
     trendLine |-> trendLine, aggregation |-> aggregation, anomaly |-> anomaly]

Controls ==
    [dateRangeFilter |-> dateRangeFilter, valueRangeFilter |-> valueRangeFilter,
     movingAverageControl |-> movingAverageControl, trendLineControl |-> trendLineControl,
     aggregationControl |-> aggregationControl, anomalyDetection |-> anomalyDetection]

View == Get(rendered)

\* mutant: the dependency array of processedData lacks the smoothing and trend settings
MemoDependenciesChangedOmitsSmoothing(slots) == slots \ {"movingAverage", "trendLine"} # {}

\* some dependency of the processedData useMemo changed identity
MemoDependenciesChanged(slots) == slots # {}

\* the first argument of onAnalysisChange
EmittedState(r) == [r.state EXCEPT !.trendLine.trendData = r.processedData.trendData]

\* what React does next: flush the effects of the last commit, else render
\* what became stale, else rest
PhaseAfter(pending, slots, controls, r) ==
    IF pending # {} THEN "effects"
    ELSE IF slots # {} \/ controls # Get(r).controls THEN "render"
    ELSE "idle"

\* the effects whose dependencies differ from those of the previous render
EffectsOf(mount, parentRenders, prev, cur) ==
    (IF mount \/ <<prev.dateRangeFilter.startDate, prev.dateRangeFilter.endDate>>
                 # <<cur.dateRangeFilter.startDate, cur.dateRangeFilter.endDate>>
     THEN {"DateRangeFilter.emit"} ELSE {})
    \cup (IF mount THEN {"ValueRangeFilter.iqr"} ELSE {})
    \cup (IF mount \/ <<prev.valueRangeFilter.minValue, prev.valueRangeFilter.maxValue,
                       prev.valueRangeFilter.excludeOutliers, prev.valueRangeFilter.iqrInfo>>
                     # <<cur.valueRangeFilter.minValue, cur.valueRangeFilter.maxValue,
                         cur.valueRangeFilter.excludeOutliers, cur.valueRangeFilter.iqrInfo>>
          THEN {"ValueRangeFilter.emit"} ELSE {})
    \cup (IF mount \/ prev.movingAverageControl # cur.movingAverageControl
          THEN {"MovingAverageControl.emit"} ELSE {})
    \cup (IF parentRenders \/ prev.trendLineControl # cur.trendLineControl
          THEN {"TrendLineControl.emit"} ELSE {})
    \cup (IF mount \/ prev.aggregationControl # cur.aggregationControl
          THEN {"AggregationControl.emit"} ELSE {})
    \cup (IF mount \/ prev.anomalyDetection # cur.anomalyDetection
          THEN {"AnomalyDetection.emit"} ELSE {})
    \cup (IF parentRenders THEN {"AnalysisPanel.emit"} ELSE {})

\* ---- bounds and sample inputs of the mounted panel

\* number of user interactions in one run
MaxUserActions == 2

\* no data; one point whose value has three decimals; six points, the last
\* an outlier, spread over three hours
PanelSeries ==
    {<<>>,
     <<[timestamp |-> 0, value |-> Frac(1, 8)]>>,
     [i \in 1..6 |-> [timestamp |-> i - 1, value |-> IF i = 6 THEN R(9) ELSE R(1)]]}

PanelTzOffsets == {0, -5 * UnitsPerHour}

Init ==
    /\ rawData \in PanelSeries
    /\ tzOffset \in PanelTzOffsets
    /\ dateRange = InitialDateRange
    /\ valueRange = InitialValueRange
    /\ movingAverage = InitialMovingAverage
    /\ trendLine = InitialTrendLine
    /\ aggregation = InitialAggregation
    /\ anomaly = InitialAnomaly
    /\ dateRangeFilter = InitialDateRangeFilter(InitialDateRange)
    /\ valueRangeFilter = InitialValueRangeFilter(InitialValueRange,
                              dataBounds(rawData).minValue, dataBounds(rawData).maxValue)
    /\ movingAverageControl = InitialMovingAverageControl(InitialMovingAverage)
    /\ trendLineControl = InitialTrendLineControl(InitialTrendLine.enabled)
    /\ aggregationControl = InitialAggregationControl(InitialAggregation)
    /\ anomalyDetection = InitialAnomalyDetection(InitialAnomaly)
    /\ phase = "render"
    /\ touched = {}
    /\ rendered = NULL
    /\ pendingEffects = {}
    /\ memo = NULL
    /\ emitted = NULL
    /\ userActions = 0
    /\ call = NULL
    /\ ret = NULL
    /\ heap = <<>>
    /\ LoaderUnmounted

\* ---- React: render and commit

\* AnalysisPanel renders when it mounts and when one of its slots was set;
\* a control renders with it, and when its own state was set.  An exception
\* thrown while rendering is caught by no error boundary: React unmounts the
\* tree.
Render ==
    /\ phase = "render"
    /\ LET mount == rendered = NULL
           parentRenders == mount \/ touched # {}
           recompute == mount \/ MemoDependenciesChanged(touched)
           result == ComputeProcessedData(rawData, dateRange, valueRange, movingAverage,
                                          trendLine, aggregation, anomaly)
       IN  IF recompute /\ ~result.ok
           THEN /\ phase' = "crashed"
                /\ UNCHANGED <<touched, rendered, pendingEffects, memo>>
           ELSE LET effects == EffectsOf(mount, parentRenders,
                                         IF mount THEN Controls ELSE View.controls,
                                         Controls)
                IN  /\ memo' = IF recompute THEN Some(result) ELSE memo
                    /\ rendered' =
                         Some([state |-> IF parentRenders THEN ParentState ELSE View.state,
                               processedData |-> Get(memo').val,
                               controls |-> Controls,
                               memo |-> IF mount THEN "computed"
                                        ELSE IF ~recompute THEN "kept"
                                        ELSE IF ParentState = View.state THEN "redundant"
                                        ELSE "recomputed"])
                    /\ pendingEffects' = effects
                    /\ touched' = {}
                    /\ phase' = IF effects # {} THEN "effects" ELSE "idle"
    /\ UNCHANGED <<rawData, tzOffset, panelVars, controlVars, emitted, userActions,
                   engineVars>>

DateRangeError == "Start date must be before or equal to end date"

ValueRangeError == "Minimum value must be less than or equal to maximum value"

\* The passive effects of the last commit, children before their parent and
\* in the order of the tree; each reads the closure of the render that
\* scheduled it.
Effects ==
    /\ phase = "effects"
    /\ LET c == View.controls
           runs(e) == e \in pendingEffects
           dateEmits == runs("DateRangeFilter.emit") /\ ~DateRangeInvalid(c.dateRangeFilter)
           valueEmits == runs("ValueRangeFilter.emit") /\ ~ValueRangeInvalid(c.valueRangeFilter)
           allValues == dataBounds(rawData).values
       IN  /\ dateRangeFilter' =
                IF runs("DateRangeFilter.emit")
                THEN [dateRangeFilter EXCEPT !.validationError =
                        IF DateRangeInvalid(c.dateRangeFilter) THEN DateRangeError ELSE ""]
                ELSE dateRangeFilter
           /\ dateRange' = IF dateEmits THEN DateRangeEmitted(c.dateRangeFilter) ELSE dateRange
           /\ valueRangeFilter' =
                [valueRangeFilter EXCEPT
                   !.iqrInfo = IF runs("ValueRangeFilter.iqr") /\ Len(allValues) > 0
                               THEN Some(IqrInfo(allValues)) ELSE @,
                   !.validationError =
                        IF runs("ValueRangeFilter.emit")
                        THEN (IF ValueRangeInvalid(c.valueRangeFilter)
                              THEN ValueRangeError ELSE "")
                        ELSE @]
           /\ valueRange' = IF valueEmits THEN ValueRangeEmitted(c.valueRangeFilter)
                            ELSE valueRange
           /\ movingAverage' = IF runs("MovingAverageControl.emit")
                               THEN c.movingAverageControl ELSE movingAverage
           /\ trendLine' = IF runs("TrendLineControl.emit")
                           THEN TrendLineEmitted(c.trendLineControl,
                                                 View.processedData.trendData)
                           ELSE trendLine
           /\ aggregation' = IF runs("AggregationControl.emit")
                             THEN c.aggregationControl ELSE aggregation
           /\ anomaly' = IF runs("AnomalyDetection.emit")
                         THEN c.anomalyDetection ELSE anomaly
           /\ touched' = touched
                \cup (IF dateEmits THEN {"dateRange"} ELSE {})
                \cup (IF valueEmits THEN {"valueRange"} ELSE {})
                \cup (IF runs("MovingAverageControl.emit") THEN {"movingAverage"} ELSE {})
                \cup (IF runs("TrendLineControl.emit") THEN {"trendLine"} ELSE {})
                \cup (IF runs("AggregationControl.emit") THEN {"aggregation"} ELSE {})
                \cup (IF runs("AnomalyDetection.emit") THEN {"anomaly"} ELSE {})
           /\ emitted' = IF runs("AnalysisPanel.emit")
                         THEN Some([state |-> EmittedState(View),
                                    processed |-> View.processedData])
                         ELSE emitted
    /\ pendingEffects' = {}
    /\ UNCHANGED <<rawData, tzOffset, movingAverageControl, trendLineControl,
                   aggregationControl, anomalyDetection, rendered, memo, userActions,
                   engineVars>>
    /\ phase' = PhaseAfter(pendingEffects', touched', Controls', rendered')

\* ---- user events.  A handler runs on the view last committed: it reads the
\* ---- closure of that render and is reachable only through an element that
\* ---- render produced, enabled.

CanInteract ==
    /\ rendered # NULL
    /\ phase # "crashed"
    /\ userActions < MaxUserActions

Handled ==
    /\ userActions' = userActions + 1
    /\ UNCHANGED <<rawData, tzOffset, rendered, pendingEffects, memo, emitted, engineVars>>
    /\ phase' = PhaseAfter(pendingEffects', touched', Controls', rendered')

\* typed dates: none, the day of the epoch, the day after
DateInputs == {NULL, Some(0), Some(1)}

PresetButtons == {"all", "last30", "last90", "lastyear"}

\* date.setDate(date.getDate() - n)
DaysBefore(timestamp, n) == FromLocal(ToLocal(timestamp) - n * UnitsPerDay)

\* date.setFullYear(date.getFullYear() - 1)
OneYearBefore(timestamp) ==
    LET local == ToLocal(timestamp)
        civil == CivilFromDays(local \div UnitsPerDay)
    IN  FromLocal(DaysFromCivil(civil.year - 1, civil.month, civil.day) * UnitsPerDay
                  + (local % UnitsPerDay))

PresetStart(preset, minDate, maxDate) ==
    LET ago == CASE preset = "last30" -> DaysBefore(maxDate, 30)
                 [] preset = "last90" -> DaysBefore(maxDate, 90)
                 [] preset = "lastyear" -> OneYearBefore(maxDate)
    IN  FormatDate(IF ago > minDate THEN ago ELSE minDate)

DateRangeFilter_handlePresetClick ==
    /\ CanInteract
    /\ \E preset \in PresetButtons :
          LET bounds == dataBounds(rawData)
          IN  dateRangeFilter' =
                IF preset = "all"
                THEN [dateRangeFilter EXCEPT !.activePreset = preset,
                                             !.startDate = NULL, !.endDate = NULL]
                ELSE [dateRangeFilter EXCEPT
                        !.activePreset = preset,
                        !.startDate = Some(PresetStart(preset, bounds.minDate, bounds.maxDate)),
                        !.endDate = Some(FormatDate(bounds.maxDate))]
    /\ UNCHANGED <<panelVars, touched, valueRangeFilter, movingAverageControl,
                   trendLineControl, aggregationControl, anomalyDetection>>
    /\ Handled

DateRangeFilter_handleStartDateChange ==
    /\ CanInteract
    /\ \E value \in DateInputs :
          /\ value # View.controls.dateRangeFilter.startDate
          /\ dateRangeFilter' = [dateRangeFilter EXCEPT !.startDate = value,
                                                        !.activePreset = "custom"]
    /\ UNCHANGED <<panelVars, touched, valueRangeFilter, movingAverageControl,
                   trendLineControl, aggregationControl, anomalyDetection>>
    /\ Handled

DateRangeFilter_handleEndDateChange ==
    /\ CanInteract
    /\ \E value \in DateInputs :
          /\ value # View.controls.dateRangeFilter.endDate
          /\ dateRangeFilter' = [dateRangeFilter EXCEPT !.endDate = value,
                                                        !.activePreset = "custom"]
    /\ UNCHANGED <<panelVars, touched, valueRangeFilter, movingAverageControl,
                   trendLineControl, aggregationControl, anomalyDetection>>
    /\ Handled

DateRangeFilter_handleClearFilter ==
    /\ CanInteract
    /\ \/ View.controls.dateRangeFilter.startDate # NULL
       \/ View.controls.dateRangeFilter.endDate # NULL
    /\ dateRangeFilter' = [startDate |-> NULL, endDate |-> NULL, activePreset |-> "all",
                           validationError |-> ""]
    /\ UNCHANGED <<panelVars, touched, valueRangeFilter, movingAverageControl,
                   trendLineControl, aggregationControl, anomalyDetection>>
    /\ Handled

\* typed bounds: none, the low and the high value of the pipeline samples
ValueInputs == {NULL, Some(R(1)), Some(R(4))}

\* the two ends of a slider
SliderPositions == {dataBounds(rawData).minValue, dataBounds(rawData).maxValue}

ValueRangeFilter_handleMinInputChange ==
    /\ CanInteract
    /\ ~View.controls.valueRangeFilter.excludeOutliers
    /\ \E value \in ValueInputs :
          /\ value # View.controls.valueRangeFilter.minValue
          /\ valueRangeFilter' =
                [valueRangeFilter EXCEPT !.minValue = value,
                                         !.sliderMin = IF value # NULL THEN Get(value) ELSE @]
    /\ UNCHANGED <<panelVars, touched, dateRangeFilter, movingAverageControl,
                   trendLineControl, aggregationControl, anomalyDetection>>
    /\ Handled

ValueRangeFilter_handleMaxInputChange ==
    /\ CanInteract
    /\ ~View.controls.valueRangeFilter.excludeOutliers
    /\ \E value \in ValueInputs :
          /\ value # View.controls.valueRangeFilter.maxValue
          /\ valueRangeFilter' =
                [valueRangeFilter EXCEPT !.maxValue = value,
                                         !.sliderMax = IF value # NULL THEN Get(value) ELSE @]
    /\ UNCHANGED <<panelVars, touched, dateRangeFilter, movingAverageControl,
                   trendLineControl, aggregationControl, anomalyDetection>>
    /\ Handled

ValueRangeFilter_handleSliderMinChange ==
    /\ CanInteract
    /\ ~View.controls.valueRangeFilter.excludeOutliers
    /\ \E num \in SliderPositions :
          /\ num # View.controls.valueRangeFilter.sliderMin
          /\ valueRangeFilter' = [valueRangeFilter EXCEPT !.sliderMin = num,
                                                          !.minValue = Some(ToFixed2(num))]
    /\ UNCHANGED <<panelVars, touched, dateRangeFilter, movingAverageControl,
                   trendLineControl, aggregationControl, anomalyDetection>>
    /\ Handled

ValueRangeFilter_handleSliderMaxChange ==
    /\ CanInteract
    /\ ~View.controls.valueRangeFilter.excludeOutliers
    /\ \E num \in SliderPositions :
          /\ num # View.controls.valueRangeFilter.sliderMax
          /\ valueRangeFilter' = [valueRangeFilter EXCEPT !.sliderMax = num,
                                                          !.maxValue = Some(ToFixed2(num))]
    /\ UNCHANGED <<panelVars, touched, dateRangeFilter, movingAverageControl,
                   trendLineControl, aggregationControl, anomalyDetection>>
    /\ Handled

\* the hook state handleExcludeOutliersChange(checked) leaves, run on the closure c
ExcludeOutliersChanged(current, c, checked) ==
    IF checked /\ c.iqrInfo # NULL
    THEN LET iqrInfo == Get(c.iqrInfo)
         IN  [current EXCEPT !.excludeOutliers = checked,
                             !.minValue = Some(ToFixed2(iqrInfo.lowerBound)),
                             !.maxValue = Some(ToFixed2(iqrInfo.upperBound)),
                             !.sliderMin = iqrInfo.lowerBound,
                             !.sliderMax = iqrInfo.upperBound]
    ELSE [current EXCEPT !.excludeOutliers = checked]

ValueRangeFilter_handleExcludeOutliersChange ==
    /\ CanInteract
    /\ View.controls.valueRangeFilter.iqrInfo # NULL
    /\ valueRangeFilter' =
          ExcludeOutliersChanged(valueRangeFilter, View.controls.valueRangeFilter,
                                 ~View.controls.valueRangeFilter.excludeOutliers)
    /\ UNCHANGED <<panelVars, touched, dateRangeFilter, movingAverageControl,
                   trendLineControl, aggregationControl, anomalyDetection>>
    /\ Handled

ValueRangeFilter_handleClearFilter ==
    /\ CanInteract
    /\ \/ View.controls.valueRangeFilter.minValue # NULL
       \/ View.controls.valueRangeFilter.maxValue # NULL
       \/ View.controls.valueRangeFilter.excludeOutliers
    /\ valueRangeFilter' = [valueRangeFilter EXCEPT
                              !.minValue = NULL, !.maxValue = NULL,
                              !.excludeOutliers = FALSE,
                              !.sliderMin = dataBounds(rawData).minValue,
                              !.sliderMax = dataBounds(rawData).maxValue,
                              !.validationError = ""]
    /\ UNCHANGED <<panelVars, touched, dateRangeFilter, movingAverageControl,
                   trendLineControl, aggregationControl, anomalyDetection>>
    /\ Handled

\* DEFAULT_SETTINGS of MovingAverageControl, AggregationControl, AnomalyDetection
MovingAverageDefaultSettings ==
    [type |-> "none", windowSize |-> 7, alpha |-> Frac(3, 10), visible |-> TRUE]

AggregationDefaultSettings == [enabled |-> FALSE, period |-> "daily", func |-> "mean"]

AnomalyDefaultSettings == [enabled |-> FALSE, threshold |-> R(2), excludeFromStats |-> FALSE]

MovingAverageTypes == {"none", "sma", "ema"}

\* typed window sizes: not a number, zero, and two small windows
WindowInputs == {NULL, Some(0), Some(1), Some(2)}

\* typed smoothing factors: inside, at the end of and beyond (0, 1]
AlphaInputs == {Frac(1, 2), R(1), Frac(3, 2)}

AlphaButtons == {Frac(1, 10), Frac(3, 10), Frac(7, 10)}

suggestedWindowSizes(maxDataPoints) ==
    LET atLeastOne(n) == IF n > 1 THEN n ELSE 1
    IN  {value \in {7, 30, 90, atLeastOne(maxDataPoints \div 20),
                    atLeastOne(maxDataPoints \div 10)} : value <= maxDataPoints}

MovingAverageControl_handleTypeChange ==
    /\ CanInteract
    /\ \E newType \in MovingAverageTypes :
          /\ newType # View.controls.movingAverageControl.type
          /\ movingAverageControl' =
                [movingAverageControl EXCEPT
                   !.type = newType,
                   !.visible = IF newType # "none" THEN TRUE ELSE @]
    /\ UNCHANGED <<panelVars, touched, dateRangeFilter, valueRangeFilter,
                   trendLineControl, aggregationControl, anomalyDetection>>
    /\ Handled

MovingAverageControl_handleWindowSizeChange ==
    /\ CanInteract
    /\ View.controls.movingAverageControl.type = "sma"
    /\ \E value \in WindowInputs :
          /\ value # Some(View.controls.movingAverageControl.windowSize)
          /\ movingAverageControl' =
                IF value # NULL /\ Get(value) > 0
                THEN [movingAverageControl EXCEPT !.windowSize = Get(value)]
                ELSE movingAverageControl
    /\ UNCHANGED <<panelVars, touched, dateRangeFilter, valueRangeFilter,
                   trendLineControl, aggregationControl, anomalyDetection>>
    /\ Handled

MovingAverageControl_selectSuggestedWindowSize ==
    /\ CanInteract
    /\ View.controls.movingAverageControl.type = "sma"
    /\ \E value \in suggestedWindowSizes(Len(View.processedData.filteredData)) :
          movingAverageControl' = [movingAverageControl EXCEPT !.windowSize = value]
    /\ UNCHANGED <<panelVars, touched, dateRangeFilter, valueRangeFilter,
                   trendLineControl, aggregationControl, anomalyDetection>>
    /\ Handled

\* mutant: any positive smoothing factor is taken
AlphaAcceptedAnyPositive(num) == RGt(num, R(0))

\* the test handleAlphaChange makes before it stores the parsed number
AlphaAccepted(num) == RGt(num, R(0)) /\ RLe(num, R(1))

MovingAverageControl_handleAlphaChange ==
    /\ CanInteract
    /\ View.controls.movingAverageControl.type = "ema"
    /\ \E num \in AlphaInputs :
          /\ num # View.controls.movingAverageControl.alpha
          /\ movingAverageControl' =
                IF AlphaAccepted(num)
                THEN [movingAverageControl EXCEPT !.alpha = num]
                ELSE movingAverageControl
    /\ UNCHANGED <<panelVars, touched, dateRangeFilter, valueRangeFilter,
                   trendLineControl, aggregationControl, anomalyDetection>>
    /\ Handled

MovingAverageControl_selectAlpha ==
    /\ CanInteract
    /\ View.controls.movingAverageControl.type = "ema"
    /\ \E value \in AlphaButtons :
          movingAverageControl' = [movingAverageControl EXCEPT !.alpha = value]
    /\ UNCHANGED <<panelVars, touched, dateRangeFilter, valueRangeFilter,
                   trendLineControl, aggregationControl, anomalyDetection>>
    /\ Handled

MovingAverageControl_handleVisibilityToggle ==
    /\ CanInteract
    /\ View.controls.movingAverageControl.type # "none"
    /\ movingAverageControl' =
          [movingAverageControl EXCEPT
             !.visible = ~View.controls.movingAverageControl.visible]
    /\ UNCHANGED <<panelVars, touched, dateRangeFilter, valueRangeFilter,
                   trendLineControl, aggregationControl, anomalyDetection>>
    /\ Handled

MovingAverageControl_handleReset ==
    /\ CanInteract
    /\ View.controls.movingAverageControl.type # "none"
    /\ movingAverageControl' = MovingAverageDefaultSettings
    /\ UNCHANGED <<panelVars, touched, dateRangeFilter, valueRangeFilter,
                   trendLineControl, aggregationControl, anomalyDetection>>
    /\ Handled

TrendLineControl_handleToggle ==
    /\ CanInteract
    /\ trendLineControl' = [enabled |-> ~View.controls.trendLineControl.enabled]
    /\ UNCHANGED <<panelVars, touched, dateRangeFilter, valueRangeFilter,
                   movingAverageControl, aggregationControl, anomalyDetection>>
    /\ Handled

\* the periods and functions picked in the runs
PeriodButtons == {"hourly", "monthly"}

FunctionOptions == {"mean", "count", "median"}

AggregationControl_handleEnabledToggle ==
    /\ CanInteract
    /\ aggregationControl' =
          [aggregationControl EXCEPT !.enabled = ~View.controls.aggregationControl.enabled]
    /\ UNCHANGED <<panelVars, touched, dateRangeFilter, valueRangeFilter,
                   movingAverageControl, trendLineControl, anomalyDetection>>
    /\ Handled

AggregationControl_handlePeriodChange ==
    /\ CanInteract
    /\ View.controls.aggregationControl.enabled
    /\ \E newPeriod \in PeriodButtons :
          aggregationControl' =
             [aggregationControl EXCEPT
                !.period = newPeriod,
                !.enabled = IF ~View.controls.aggregationControl.enabled THEN TRUE ELSE @]
    /\ UNCHANGED <<panelVars, touched, dateRangeFilter, valueRangeFilter,
                   movingAverageControl, trendLineControl, anomalyDetection>>
    /\ Handled

AggregationControl_handleFuncChange ==
    /\ CanInteract
    /\ View.controls.aggregationControl.enabled
    /\ \E newFunc \in FunctionOptions :
          /\ newFunc # View.controls.aggregationControl.func
          /\ aggregationControl' =
                [aggregationControl EXCEPT
                   !.func = newFunc,
                   !.enabled = IF ~View.controls.aggregationControl.enabled THEN TRUE ELSE @]
    /\ UNCHANGED <<panelVars, touched, dateRangeFilter, valueRangeFilter,
                   movingAverageControl, trendLineControl, anomalyDetection>>
    /\ Handled

AggregationControl_handleReset ==
    /\ CanInteract
    /\ View.controls.aggregationControl.enabled
    /\ aggregationControl' = AggregationDefaultSettings
    /\ UNCHANGED <<panelVars, touched, dateRangeFilter, valueRangeFilter,
                   movingAverageControl, trendLineControl, anomalyDetection>>
    /\ Handled

\* typed thresholds: zero and half a standard deviation
ThresholdInputs == {R(0), Frac(1, 2)}

ThresholdButtons == {Frac(3, 2), R(2), R(3)}

AnomalyDetection_handleEnabledToggle ==
    /\ CanInteract
    /\ anomalyDetection' =
          [anomalyDetection EXCEPT !.enabled = ~View.controls.anomalyDetection.enabled]
    /\ UNCHANGED <<panelVars, touched, dateRangeFilter, valueRangeFilter,
                   movingAverageControl, trendLineControl, aggregationControl>>
    /\ Handled

AnomalyDetection_handleThresholdChange ==
    /\ CanInteract
    /\ View.controls.anomalyDetection.enabled
    /\ \E num \in ThresholdInputs :
          /\ num # View.controls.anomalyDetection.threshold
          /\ anomalyDetection' =
                IF RGt(num, R(0)) THEN [anomalyDetection EXCEPT !.threshold = num]
                ELSE anomalyDetection
    /\ UNCHANGED <<panelVars, touched, dateRangeFilter, valueRangeFilter,
                   movingAverageControl, trendLineControl, aggregationControl>>
    /\ Handled

AnomalyDetection_selectThreshold ==
    /\ CanInteract
    /\ View.controls.anomalyDetection.enabled
    /\ \E value \in ThresholdButtons :
          anomalyDetection' = [anomalyDetection EXCEPT !.threshold = value]
    /\ UNCHANGED <<panelVars, touched, dateRangeFilter, valueRangeFilter,
                   movingAverageControl, trendLineControl, aggregationControl>>
    /\ Handled

AnomalyDetection_handleExcludeToggle ==
    /\ CanInteract
    /\ View.controls.anomalyDetection.enabled
    /\ Len(View.processedData.anomalies) > 0
    /\ anomalyDetection' =
          [anomalyDetection EXCEPT
             !.excludeFromStats = ~View.controls.anomalyDetection.excludeFromStats]
    /\ UNCHANGED <<panelVars, touched, dateRangeFilter, valueRangeFilter,
                   movingAverageControl, trendLineControl, aggregationControl>>
    /\ Handled

AnomalyDetection_handleReset ==
    /\ CanInteract
    /\ View.controls.anomalyDetection.enabled
    /\ anomalyDetection' = AnomalyDefaultSettings
    /\ UNCHANGED <<panelVars, touched, dateRangeFilter, valueRangeFilter,
                   movingAverageControl, trendLineControl, aggregationControl>>
    /\ Handled

handleResetAll ==
    /\ CanInteract
    /\ hasActiveFiltersOrAnalysis(View.state)
    /\ dateRange' = InitialDateRange
    /\ valueRange' = InitialValueRange
    /\ movingAverage' = InitialMovingAverage
    /\ trendLine' = InitialTrendLine
    /\ aggregation' = InitialAggregation
    /\ anomaly' = InitialAnomaly
    /\ touched' = {"dateRange", "valueRange", "movingAverage", "trendLine", "aggregation",
                   "anomaly"}
    /\ UNCHANGED controlVars
    /\ Handled

Next ==
    \/ Render
    \/ Effects
    \/ DateRangeFilter_handlePresetClick
    \/ DateRangeFilter_handleStartDateChange
    \/ DateRangeFilter_handleEndDateChange
    \/ DateRangeFilter_handleClearFilter
    \/ ValueRangeFilter_handleMinInputChange
    \/ ValueRangeFilter_handleMaxInputChange
    \/ ValueRangeFilter_handleSliderMinChange
    \/ ValueRangeFilter_handleSliderMaxChange
    \/ ValueRangeFilter_handleExcludeOutliersChange
    \/ ValueRangeFilter_handleClearFilter
    \/ MovingAverageControl_handleTypeChange
    \/ MovingAverageControl_handleWindowSizeChange
    \/ MovingAverageControl_selectSuggestedWindowSize
    \/ MovingAverageControl_handleAlphaChange
    \/ MovingAverageControl_selectAlpha
    \/ MovingAverageControl_handleVisibilityToggle
    \/ MovingAverageControl_handleReset
    \/ TrendLineControl_handleToggle
    \/ AggregationControl_handleEnabledToggle
    \/ AggregationControl_handlePeriodChange
    \/ AggregationControl_handleFuncChange
    \/ AggregationControl_handleReset
    \/ AnomalyDetection_handleEnabledToggle
    \/ AnomalyDetection_handleThresholdChange
    \/ AnomalyDetection_selectThreshold
    \/ AnomalyDetection_handleExcludeToggle
    \/ AnomalyDetection_handleReset
    \/ handleResetAll

Spec == Init /\ [][Next]_vars

-----------------------------------------------------------------------------
(* Claims about the mounted panel *)

\* C1 (as stated): the recomputation of ProcessedData completes without an
\* exception in every state reachable through the controls; an sma window
\* larger than the series fed to smoothing gives movingAverageData = null.
\* An exception in the processedData callback leaves the panel crashed.
C1_RecomputationNeverThrows == phase # "crashed"

\* C3 (as stated): ProcessedData is recomputed only when the value of some
\* parameter changes; a control re-emitting settings equal to the ones the
\* panel holds causes no recomputation.
C3_NoRedundantRecomputation == rendered # NULL => View.memo # "redundant"

\* C4: every call onAnalysisChange(state, processed) delivers the ProcessedData
\* computed from the raw series and the parameter values of that same state,
\* and the state's trendLine carries the trend of that ProcessedData.
C4_EmittedPairIsConsistent ==
    emitted # NULL =>
        LET state == Get(emitted).state
            processed == Get(emitted).processed
        IN  /\ ComputeProcessedData(rawData, state.dateRange, state.valueRange,
                                    state.movingAverage, state.trendLine,
                                    state.aggregation, state.anomaly) = Ok(processed)
            /\ state.trendLine.trendData = processed.trendData

\* two parameter changes in a row reached the subscriber: smoothing over an
\* aggregated series
C4_Witness ==
    /\ emitted # NULL
    /\ userActions = 2
    /\ Get(emitted).state.aggregation.enabled
    /\ Get(emitted).state.movingAverage.type = "ema"
    /\ Get(emitted).processed.aggregatedData # NULL
    /\ Get(emitted).processed.movingAverageData # NULL

\* C7: whenever the panel's value range has excludeOutliers set, its min and
\* max lie inside the IQR envelope of all raw values, and a range newly set is
\* the tighter of the control's typed bound and the IQR bound on each side.
C7_OutlierBoundsInsideEnvelope ==
    [][valueRange'.excludeOutliers =>
         LET iqr == calculateIQR(MapValue(rawData))
             typed == View.controls.valueRangeFilter
         IN  /\ valueRange'.min # NULL
             /\ valueRange'.max # NULL
             /\ RLe(iqr.lowerBound, Get(valueRange'.min))
             /\ RLe(Get(valueRange'.max), iqr.upperBound)
             /\ valueRange' # valueRange =>
                  /\ valueRange'.min = Some(IF typed.minValue # NULL
                                            THEN RMax(Get(typed.minValue), iqr.lowerBound)
                                            ELSE iqr.lowerBound)
                  /\ valueRange'.max = Some(IF typed.maxValue # NULL
                                            THEN RMin(Get(typed.maxValue), iqr.upperBound)
                                            ELSE iqr.upperBound)]_vars

\* outliers are excluded and the typed lower bound, rounded to two decimals,
\* is the tighter one
C7_Witness ==
    /\ phase # "unmounted"
    /\ valueRange.excludeOutliers
    /\ valueRange.min # NULL
    /\ RGt(Get(valueRange.min), calculateIQR(MapValue(rawData)).lowerBound)

\* the hook state of AnalysisPanel holds the defaults of its useState calls
ParentHoldsDefaults ==
    /\ dateRange = InitialDateRange
    /\ valueRange = InitialValueRange
    /\ movingAverage = InitialMovingAverage
    /\ trendLine = InitialTrendLine
    /\ aggregation = InitialAggregation
    /\ anomaly = InitialAnomaly

\* the settings the controls hold locally are the defaults
ControlsHoldDefaults ==
    /\ dateRangeFilter.startDate = NULL
    /\ dateRangeFilter.endDate = NULL
    /\ valueRangeFilter.minValue = NULL
    /\ valueRangeFilter.maxValue = NULL
    /\ ~valueRangeFilter.excludeOutliers
    /\ movingAverageControl = InitialMovingAverageControl(InitialMovingAverage)
    /\ trendLineControl = InitialTrendLineControl(InitialTrendLine.enabled)
    /\ aggregationControl = InitialAggregationControl(InitialAggregation)
    /\ anomalyDetection = InitialAnomalyDetection(InitialAnomaly)

\* Reset All was the last user action the bound allows, and nothing has run
\* since: the six slots were set together on a panel rendered with active
\* settings, which no flush of effects after the mount does
ResetAllJustClicked ==
    /\ userActions = MaxUserActions
    /\ rendered # NULL
    /\ hasActiveFiltersOrAnalysis(View.state)
    /\ Controls = View.controls
    /\ phase = "render"
    /\ touched = {"dateRange", "valueRange", "movingAverage", "trendLine", "aggregation",
                  "anomaly"}
    /\ ParentHoldsDefaults

\* C22: a click on Reset All leaves the panel's parameters and the settings
\* held locally by every control at their defaults, and with no further user
\* action the panel's parameters stay at their defaults.
C22_ResetAllClearsAndStaysCleared ==
    /\ [][handleResetAll => (ParentHoldsDefaults' /\ ControlsHoldDefaults')]_vars
    /\ [](ResetAllJustClicked => []ParentHoldsDefaults)

\* the date range held by AnalysisPanel has its start no later than its end
DateRangeOrdered(range) ==
    (range.startDate # NULL /\ range.endDate # NULL)
        => Get(range.startDate) <= Get(range.endDate)

\* the pending effects are flushed and the emit effect of DateRangeFilter is
\* among them, on inputs with the start after the end
EmitsReversedDates ==
    /\ phase = "effects"
    /\ phase' # "effects"
    /\ "DateRangeFilter.emit" \in pendingEffects
    /\ View.controls.dateRangeFilter.startDate # NULL
    /\ View.controls.dateRangeFilter.endDate # NULL
    /\ Get(View.controls.dateRangeFilter.startDate)
         > Get(View.controls.dateRangeFilter.endDate)

\* C23: the date range held by AnalysisPanel never has its start after its
\* end; when the inputs of DateRangeFilter hold a start later than the end,
\* its effect shows the validation error and emits nothing, so the range
\* applied before stays in force.
C23_DateRangeNeverReversed ==
    /\ [](DateRangeOrdered(dateRange))
    /\ [][EmitsReversedDates =>
            /\ dateRangeFilter'.validationError = DateRangeError
            /\ dateRange' = dateRange]_vars

\* an end date was applied, then a later start date was typed: the error is
\* shown and the panel still holds the range with the end date alone
C23_Witness ==
    /\ dateRangeFilter # NULL
    /\ dateRangeFilter.validationError = DateRangeError
    /\ dateRangeFilter.startDate # NULL
    /\ dateRange.startDate = NULL
    /\ dateRange.endDate # NULL

\* React runs a scheduled render and flushes pending effects; the user need
\* not act.  Render is enabled in every state with a render scheduled and
\* Effects in every state with effects pending, and a user event leaves the
\* phase as it is or cancels the render, so weak fairness of the two is stated
\* on the phase they end.
RenderCommitted == phase = "render" /\ phase' \in {"effects", "idle", "crashed"}

EffectsFlushed == phase = "effects" /\ phase' \in {"render", "idle"}

SpecLive ==
    Init /\ [][Next]_vars /\ WF_phase(RenderCommitted) /\ WF_phase(EffectsFlushed)

\* nothing is scheduled: no render is due and no effect is pending
Quiescent == phase \in {"idle", "crashed"}

\* C25: after the mount, and after any user action, the cycle of render,
\* control effects, parent state updates, recomputation and onAnalysisChange
\* comes to rest: with no further user action a state is reached in which no
\* render and no effect is scheduled.
C25_Quiescence == (~Quiescent) ~> Quiescent

\* the view on screen is current, its value filter is valid, the IQR is known
\* and Exclude Outliers is not checked
ReadyToExcludeOutliers ==
    /\ rendered # NULL
    /\ Controls = View.controls
    /\ valueRangeFilter.iqrInfo # NULL
    /\ ~valueRangeFilter.excludeOutliers
    /\ ~ValueRangeInvalid(valueRangeFilter)

\* the hook state after checking Exclude Outliers and unchecking it again, each
\* click handled on the view the click before it produced
CheckedThenUnchecked ==
    LET checked == ExcludeOutliersChanged(valueRangeFilter, valueRangeFilter, TRUE)
    IN  ExcludeOutliersChanged(checked, checked, FALSE)

\* C27: checking Exclude Outliers and unchecking it again is a round trip for
\* the value filter: the range the control emits after the two clicks is the
\* range it emitted before them.
C27_ExcludeOutliersRoundTrip ==
    ReadyToExcludeOutliers =>
        ValueRangeEmitted(CheckedThenUnchecked) = ValueRangeEmitted(valueRangeFilter)

\* C28: every value range that ValueRangeFilter has emitted to the panel has
\* min <= max whenever both bounds are present, also while outliers are
\* excluded and the bounds are the typed ones clamped to the IQR envelope.
C28_EmittedRangeOrdered ==
    (valueRange.min # NULL /\ valueRange.max # NULL)
        => RLe(Get(valueRange.min), Get(valueRange.max))

\* a moving-average setting or an anomaly setting the engine can work with
SettingsValid(ma, an) ==
    /\ ma.windowSize >= 1
    /\ RGt(ma.alpha, R(0))
    /\ RLe(ma.alpha, R(1))
    /\ RGt(an.threshold, R(0))

\* C29: after any sequence of control actions the settings the panel holds
\* satisfy windowSize >= 1, 0 < alpha <= 1 and threshold > 0, and so do the
\* settings every processedData was computed from.
C29_SettingsStayValid ==
    /\ SettingsValid(movingAverage, anomaly)
    /\ rendered # NULL => SettingsValid(View.state.movingAverage, View.state.anomaly)

\* the smoothing factor 1 was typed, which is the largest one taken, and the
\* exponential average was computed with it
C29_Witness ==
    /\ rendered # NULL
    /\ View.state.movingAverage.type = "ema"
    /\ View.state.movingAverage.alpha = R(1)
    /\ View.processedData.movingAverageData # NULL

-----------------------------------------------------------------------------
(* Components that load through invoke: the loadData effect of              *)
(* TimeSeriesChart, DataTable and StatsPanel, and useTauriCommand.execute.   *)
(* invoke returns a promise; the code after the await runs when the backend *)
(* answers, and the answers to different calls come in any order.           *)

\* most invoke calls made while one component is mounted
MaxRequests == 3

VariableNames == {"temperature", "pressure"}

LoadEffectComponents == {"TimeSeriesChart", "DataTable", "StatsPanel"}

LoadingComponents == LoadEffectComponents \cup {"useTauriCommand"}

\* what the backend answers for a variable, and what it fails with
get_variable_data(varName) ==
    [name |-> varName,
     values |-> IF varName = "temperature" THEN <<R(1), R(2)>> ELSE <<R(5)>>]

InvokeError(varName) == [message |-> "failed", varName |-> varName]

\* StatsPanel: the count of calculateStatistics
calculateStatistics(values) == [count |-> Len(values)]

InitLoad ==
    /\ rawData = <<>>
    /\ tzOffset = 0
    /\ dateRange = InitialDateRange
    /\ valueRange = InitialValueRange
    /\ movingAverage = InitialMovingAverage
    /\ trendLine = InitialTrendLine
    /\ aggregation = InitialAggregation
    /\ anomaly = InitialAnomaly
    /\ ControlsUnmounted
    /\ phase = "unmounted"
    /\ touched = {}
    /\ rendered = NULL
    /\ pendingEffects = {}
    /\ memo = NULL
    /\ emitted = NULL
    /\ userActions = 0
    /\ call = NULL
    /\ ret = NULL
    /\ heap = <<>>
    /\ \E c \in LoadingComponents :
          /\ loader = [component |-> c, data |-> NULL, loading |-> FALSE, error |-> NULL,
                       stats |-> NULL, deps |-> NULL]
          /\ selected \in (IF c \in LoadEffectComponents
                           THEN {Some(v) : v \in VariableNames} ELSE {NULL})
    /\ requests = <<>>

LoadUnchanged ==
    UNCHANGED <<rawData, tzOffset, panelVars, controlVars, reactVars, call, ret, heap>>

\* the synchronous part of loadData and of execute, up to the await
Invoked(varName) ==
    /\ Len(requests) < MaxRequests
    /\ requests' = Append(requests, [varName |-> varName, status |-> "pending"])
    /\ loader' = [loader EXCEPT !.loading = TRUE, !.error = NULL,
                                !.deps = IF loader.component \in LoadEffectComponents
                                         THEN Some(varName) ELSE @]

\* the parent selects another variable (or file)
ChangeVariable ==
    /\ loader.component \in LoadEffectComponents
    /\ \E v \in VariableNames : Some(v) # selected /\ selected' = Some(v)
    /\ UNCHANGED <<requests, loader>>
    /\ LoadUnchanged

\* the effect on [filePath, variable.name]: at the mount and after a change
loadData ==
    /\ loader.component \in LoadEffectComponents
    /\ loader.deps # selected
    /\ Invoked(Get(selected))
    /\ UNCHANGED selected
    /\ LoadUnchanged

\* useTauriCommand: execute(args)
execute ==
    /\ loader.component = "useTauriCommand"
    /\ \E v \in VariableNames : Invoked(v) /\ selected' = Some(v)
    /\ LoadUnchanged

\* the promise of call i resolves: the rest of the try block, then finally
InvokeResolves ==
    /\ \E i \in 1..Len(requests) :
          /\ requests[i].status = "pending"
          /\ requests' = [requests EXCEPT ![i].status = "resolved"]
          /\ LET response == get_variable_data(requests[i].varName)
             IN  loader' = [loader EXCEPT
                              !.data = Some(response),
                              !.stats = IF loader.component = "StatsPanel"
                                        THEN Some(calculateStatistics(response.values))
                                        ELSE @,
                              !.loading = FALSE]
    /\ UNCHANGED selected
    /\ LoadUnchanged

\* the promise of call i rejects: the catch block, then finally
InvokeRejects ==
    /\ \E i \in 1..Len(requests) :
          /\ requests[i].status = "pending"
          /\ requests' = [requests EXCEPT ![i].status = "rejected"]
          /\ loader' = [loader EXCEPT
                          !.error = Some(InvokeError(requests[i].varName)),
                          !.loading = FALSE]
    /\ UNCHANGED selected
    /\ LoadUnchanged

NextLoad ==
    \/ ChangeVariable
    \/ loadData
    \/ execute
    \/ InvokeResolves
    \/ InvokeRejects

SpecLoad == InitLoad /\ [][NextLoad]_vars

Pending == {i \in 1..Len(requests) : requests[i].status = "pending"}

\* every call was answered, none failed, and the effect ran for the selection
AllAnswered ==
    /\ requests # <<>>
    /\ \A i \in 1..Len(requests) : requests[i].status = "resolved"
    /\ loader.deps = selected

\* C26: in TimeSeriesChart, DataTable and StatsPanel, once every request has
\* been answered the data (and the statistics derived from it) is the answer
\* for the variable selected last, in whatever order the answers came.
C26_LatestSelectionWins ==
    (loader.component \in LoadEffectComponents /\ AllAnswered) =>
        /\ loader.data = Some(get_variable_data(Get(selected)))
        /\ loader.component = "StatsPanel" =>
              loader.stats = Some(calculateStatistics(get_variable_data(Get(selected)).values))

\* C30: in useTauriCommand loading is true while a call is pending, and once
\* every call has completed loading is false and data or error is that of the
\* call made last.
C30_LoadingCoversEveryCall ==
    loader.component = "useTauriCommand" =>
        /\ Pending # {} => loader.loading
        /\ (Pending = {} /\ requests # <<>>) =>
              LET last == requests[Len(requests)]
              IN  /\ ~loader.loading
                  /\ last.status = "resolved" =>
                        /\ loader.data = Some(get_variable_data(last.varName))
                        /\ loader.error = NULL
                  /\ last.status = "rejected" =>
                        loader.error = Some(InvokeError(last.varName))

====
